---- MODULE Spec2Model ----
(***************************************************************************)
(* A model of the compgraph library: the stream operators Map, Reduce and  *)
(* Join of compgraph/operations.py with their mappers, reducers and        *)
(* joiners, and the graph builder and executor of compgraph/graph.py.      *)
(*                                                                         *)
(* A row (a Python dict) is a sequence of <<column, value>> pairs in       *)
(* insertion order with pairwise distinct columns.  A finite stream is a   *)
(* sequence of rows.  None is the empty sequence and a present optional    *)
(* value x is <<x>>.                                                       *)
(***************************************************************************)
EXTENDS Naturals, Integers, Sequences, FiniteSets, TLC

\* ------------------------------------------------------------------ bounds

\* Longest input stream of an operator.
MaxRows == 3
\* Join key values are drawn from 1..MaxKey.
MaxKey == 3
\* Group key values of a reduced stream are drawn from 1..MaxGroupKey.
MaxGroupKey == 2
\* The values of a value column are drawn from 1..MaxVal.
MaxVal == 2
\* Longest text of a text column.
MaxText == 2
\* Most stages of a graph.
MaxStages == 2

\* The characters of a file at most
MaxChars == 3
\* The advances of a stream after its end or failure at most
MaxLate == 2
\* The rows a sort holds in memory at most
MaxRun == 2

\* ------------------------------------------------------------------ dicts

None == <<>>

Some(x) == <<x>>

MinOf(S) == CHOOSE x \in S : \A y \in S : x <= y

MaxOf(S) == CHOOSE x \in S : \A y \in S : y <= x

InSeq(x, s) == \E i \in 1..Len(s) : s[i] = x

\* column in row
Has(row, column) == \E i \in 1..Len(row) : row[i][1] = column

\* row[column]
Get(row, column) == row[CHOOSE i \in 1..Len(row) : row[i][1] = column][2]

\* row[column] = value: an existing column keeps its place, a new one is appended
DictSet(row, column, value) ==
    IF Has(row, column)
    THEN [i \in 1..Len(row) |-> IF row[i][1] = column THEN <<column, value>> ELSE row[i]]
    ELSE Append(row, <<column, value>>)

Columns(row) == {row[i][1] : i \in 1..Len(row)}

\* The mapping a dict denotes: Python's == on dicts ignores insertion order.
RowMap(row) == [c \in Columns(row) |-> Get(row, c)]

RowsMap(rows) == [i \in 1..Len(rows) |-> RowMap(rows[i])]

\* Python's < on two lists of integers
ListLess(a, b) ==
    \/ \E i \in 1..MinOf({Len(a), Len(b)}) :
          /\ a[i] < b[i]
          /\ \A j \in 1..(i - 1) : a[j] = b[j]
    \/ /\ Len(a) < Len(b)
       /\ \A j \in 1..Len(a) : a[j] = b[j]

\* ---------------------------------------------------------------- groupby

\* Reduce.sort_func and Join.sort_func: the list of a row's key values
sort_func(keys, x) == [i \in 1..Len(keys) |-> Get(x, keys[i])]

\* itertools.groupby over a stream: it rows of the stream are spent
\* (delivered through a group or skipped), tgtkey is the key of the group
\* handed out last and start the index of that group's first row.
groupby == [it |-> 0, tgtkey |-> None, start |-> 1]

\* A group that ends with its first row
RunEndFirstRow(rows, keys, j) == j

\* The index of the last row of the maximal run of equal keys that starts at j
RunEnd(rows, keys, j) ==
    MaxOf({e \in j..Len(rows) :
              \A i \in j..e : sort_func(keys, rows[i]) = sort_func(keys, rows[j])})

\* A groupby that skips nothing: the next group starts at the first unspent row
GroupbyNoSkip(rows, keys, gb) == (gb.it + 1)..Len(rows)

\* The unspent rows whose key differs from the last group's key: the next
\* group starts at the first of them, the unread rest of the last group
\* is skipped.
GroupbySkip(rows, keys, gb) ==
    {j \in (gb.it + 1)..Len(rows) :
        \/ gb.tgtkey = None
        \/ sort_func(keys, rows[j]) # gb.tgtkey[1]}

\* next(groupby): the next group's key and rows, or stop when the stream ends
GroupbyNext(rows, keys, gb) ==
    LET cand == GroupbySkip(rows, keys, gb) IN
    IF cand = {}
    THEN [stop |-> TRUE, key |-> None, group |-> <<>>,
          gb |-> [gb EXCEPT !.it = Len(rows)]]
    ELSE LET j == MinOf(cand)
             e == RunEnd(rows, keys, j)
         IN [stop |-> FALSE,
             key |-> Some(sort_func(keys, rows[j])),
             group |-> SubSeq(rows, j, e),
             gb |-> [it |-> j - 1, tgtkey |-> Some(sort_func(keys, rows[j])), start |-> j]]

\* The consumer read n rows of the current group.
GroupbyRead(gb, n) == [gb EXCEPT !.it = MaxOf({gb.it, gb.start + n - 1})]

\* ---------------------------------------------------------------- joiners

\* Joiner.__init__: the default suffixes
a_suffix == "_1"

b_suffix == "_2"

\* Joiner.is_empty: the first row of each side, None for an empty side
is_empty(rows_a, rows_b) ==
    [row_a |-> IF rows_a = <<>> THEN None ELSE Some(Head(rows_a)),
     row_b |-> IF rows_b = <<>> THEN None ELSE Some(Head(rows_b))]

\* One of the two column loops of mearge_table: every column of row, from
\* the i-th on, is written into temp_row, under column + suffix when the
\* other row has it too and it is no key.
RECURSIVE merge_columns(_, _, _, _, _, _)
merge_columns(temp_row, row, other, keys, suffix, i) ==
    IF i > Len(row) THEN temp_row
    ELSE LET column == row[i][1] IN
         merge_columns(
             IF Has(other, column) /\ ~InSeq(column, keys)
             THEN DictSet(temp_row, column \o suffix, row[i][2])
             ELSE DictSet(temp_row, column, row[i][2]),
             row, other, keys, suffix, i + 1)

\* The body of mearge_table's inner loop: the row built from one pair
merge_pair(keys, left_row, right_row) ==
    merge_columns(
        merge_columns(<<>>, left_row, right_row, keys, a_suffix, 1),
        right_row, left_row, keys, b_suffix, 1)

\* for right_row in list_rows_b, from the j-th on
RECURSIVE merge_right_loop(_, _, _, _)
merge_right_loop(keys, left_row, list_rows_b, j) ==
    IF j > Len(list_rows_b) THEN <<>>
    ELSE <<merge_pair(keys, left_row, list_rows_b[j])>>
         \o merge_right_loop(keys, left_row, list_rows_b, j + 1)

\* for left_row in chain([row_a], rows_a), from the i-th on
RECURSIVE merge_left_loop(_, _, _, _)
merge_left_loop(keys, left_rows, list_rows_b, i) ==
    IF i > Len(left_rows) THEN <<>>
    ELSE merge_right_loop(keys, left_rows[i], list_rows_b, 1)
         \o merge_left_loop(keys, left_rows, list_rows_b, i + 1)

\* mearge_table with its two loops exchanged: the right rows outermost
mearge_table_right_major(keys, row_a, row_b, rows_a, rows_b) ==
    LET left_rows == <<row_a>> \o rows_a
        list_rows_b == <<row_b>> \o rows_b
        m == Len(left_rows)
    IN [x \in 1..(m * Len(list_rows_b)) |->
           merge_pair(keys, left_rows[((x - 1) % m) + 1],
                      list_rows_b[((x - 1) \div m) + 1])]

\* Joiner.mearge_table: the right side is buffered, the left side streamed
mearge_table(keys, row_a, row_b, rows_a, rows_b) ==
    merge_left_loop(keys, <<row_a>> \o rows_a, <<row_b>> \o rows_b, 1)

\* A joiner's result: the rows it yields and how many rows of each side it
\* read.  is_empty reads the first row of a non-empty side; rows_a and
\* rows_b below are the whole groups, is_empty's row included.
JoinerMerge(keys, rows_a, rows_b) ==
    [out |-> mearge_table(keys, Head(rows_a), Head(rows_b), Tail(rows_a), Tail(rows_b)),
     read_a |-> Len(rows_a), read_b |-> Len(rows_b)]

JoinerPass(rows, rows_a, rows_b) ==
    [out |-> rows, read_a |-> Len(rows_a), read_b |-> Len(rows_b)]

JoinerNothing(rows_a, rows_b) ==
    [out |-> <<>>,
     read_a |-> MinOf({1, Len(rows_a)}), read_b |-> MinOf({1, Len(rows_b)})]

InnerJoiner(keys, rows_a, rows_b) ==
    LET e == is_empty(rows_a, rows_b) IN
    IF e.row_a # None /\ e.row_b # None THEN JoinerMerge(keys, rows_a, rows_b)
    ELSE JoinerNothing(rows_a, rows_b)

OuterJoiner(keys, rows_a, rows_b) ==
    LET e == is_empty(rows_a, rows_b) IN
    IF e.row_b = None /\ e.row_a # None THEN JoinerPass(rows_a, rows_a, rows_b)
    ELSE IF e.row_a = None /\ e.row_b # None THEN JoinerPass(rows_b, rows_a, rows_b)
    ELSE IF e.row_a # None /\ e.row_b # None THEN JoinerMerge(keys, rows_a, rows_b)
    ELSE JoinerNothing(rows_a, rows_b)

LeftJoiner(keys, rows_a, rows_b) ==
    LET e == is_empty(rows_a, rows_b) IN
    IF e.row_b = None /\ e.row_a # None THEN JoinerPass(rows_a, rows_a, rows_b)
    ELSE IF e.row_a # None /\ e.row_b # None THEN JoinerMerge(keys, rows_a, rows_b)
    ELSE JoinerNothing(rows_a, rows_b)

RightJoiner(keys, rows_a, rows_b) ==
    LET e == is_empty(rows_a, rows_b) IN
    IF e.row_a = None /\ e.row_b # None THEN JoinerPass(rows_b, rows_a, rows_b)
    ELSE IF e.row_a # None /\ e.row_b # None THEN JoinerMerge(keys, rows_a, rows_b)
    ELSE JoinerNothing(rows_a, rows_b)

Joiners == {"InnerJoiner", "OuterJoiner", "LeftJoiner", "RightJoiner"}

\* self.joiner(self.keys, rows_a, rows_b)
CallJoiner(j, keys, rows_a, rows_b) ==
    CASE j = "InnerJoiner" -> InnerJoiner(keys, rows_a, rows_b)
      [] j = "OuterJoiner" -> OuterJoiner(keys, rows_a, rows_b)
      [] j = "LeftJoiner" -> LeftJoiner(keys, rows_a, rows_b)
      [] j = "RightJoiner" -> RightJoiner(keys, rows_a, rows_b)

\* ------------------------------------------------------------------ state

VARIABLES
    join,      \* one run of Join.__call__: its inputs, locals, position and output
    reduce,    \* one run of Reduce.__call__
    map,       \* one run of Map.__call__
    graph,     \* a Graph and one run of Graph.run
    sort,      \* one run of ExternalSort.__call__
    pair       \* a Graph and two runs of Graph.run that go on together

vars == <<join, reduce, map, graph, sort, pair>>

\* A machine that takes no part in a specification.
Idle == [pc |-> "idle"]

\* ------------------------------------------------------------- input tables

\* The column layouts of the two sides of a join and its keys.
Scenarios ==
    { [keys |-> <<"k">>, left |-> <<"k", "a">>, right |-> <<"k", "b">>],
      [keys |-> <<"k">>, left |-> <<"k", "c", "c_1">>, right |-> <<"k", "c">>],
      [keys |-> <<"k">>, left |-> <<"c", "k">>, right |-> <<"k", "c_2", "c">>],
      [keys |-> <<"c_2">>, left |-> <<"c_2", "c">>, right |-> <<"c_2", "c">>] }

\* The i-th row of a table: the key columns hold the key value kv, every
\* other column a value of its own (base tells the tables apart).
MkRow(cols, keys, kv, base, i) ==
    [p \in 1..Len(cols) |->
        <<cols[p], IF InSeq(cols[p], keys) THEN kv ELSE base + 10 * i + p>>]

MkTable(cols, keys, ks, base) ==
    [i \in 1..Len(ks) |-> MkRow(cols, keys, ks[i], base, i)]

\* The key values of a stream of n rows
KeySeqs(n) == [1..n -> 1..MaxKey]

\* The key values never decrease: the stream is sorted by its keys.
SortedKeys(ks) == \A i \in 1..(Len(ks) - 1) : ks[i] <= ks[i + 1]

\* ------------------------------------------------------------------- Join

\* Join.my_next: the next group of a grouped table, (None, iter({})) at its end
my_next(rows, keys, table) ==
    LET r == GroupbyNext(rows, keys, table) IN
    [keys |-> r.key, group_rows |-> r.group, table |-> r.gb]

JoinInit ==
    /\ reduce = Idle /\ map = Idle /\ graph = Idle /\ sort = Idle /\ pair = Idle
    /\ \E sc \in Scenarios, j \in Joiners, m \in 0..MaxRows, n \in 0..MaxRows :
       \E lk \in KeySeqs(m), rk \in KeySeqs(n) :
          /\ SortedKeys(lk) /\ SortedKeys(rk)
          /\ join = [keys |-> sc.keys, joiner |-> j,
                     rows |-> MkTable(sc.left, sc.keys, lk, 100),
                     args0 |-> MkTable(sc.right, sc.keys, rk, 200),
                     left_table |-> groupby, right_table |-> groupby,
                     left_keys |-> None, left_group_rows |-> <<>>,
                     right_keys |-> None, right_group_rows |-> <<>>,
                     pc |-> "fetch", out |-> <<>>, calls |-> <<>>]

\* while True: the two my_next calls at the top of the loop
JoinFetch ==
    /\ UNCHANGED <<reduce, map, graph, sort, pair>>
    /\ join.pc = "fetch"
    /\ LET l == my_next(join.rows, join.keys, join.left_table)
           r == my_next(join.args0, join.keys, join.right_table)
       IN join' = [join EXCEPT !.left_keys = l.keys, !.left_group_rows = l.group_rows,
                               !.left_table = l.table,
                               !.right_keys = r.keys, !.right_group_rows = r.group_rows,
                               !.right_table = r.table,
                               !.pc = "while_left"]

\* left_keys is not None and (right_keys is None or left_keys < right_keys)
LeftFirst ==
    IF join.left_keys = None THEN FALSE
    ELSE IF join.right_keys = None THEN TRUE
    ELSE ListLess(join.left_keys[1], join.right_keys[1])

\* right_keys is not None and (left_keys is None or left_keys > right_keys)
RightFirst ==
    IF join.right_keys = None THEN FALSE
    ELSE IF join.left_keys = None THEN TRUE
    ELSE ListLess(join.right_keys[1], join.left_keys[1])

\* One pass of the first inner while: the joiner gets the left group alone.
JoinLeftOnly ==
    /\ UNCHANGED <<reduce, map, graph, sort, pair>>
    /\ join.pc = "while_left"
    /\ LeftFirst
    /\ LET res == CallJoiner(join.joiner, join.keys, join.left_group_rows, <<>>)
           l == my_next(join.rows, join.keys, GroupbyRead(join.left_table, res.read_a))
       IN join' = [join EXCEPT !.out = @ \o res.out,
                               !.calls = Append(@, [rows_a |-> join.left_group_rows,
                                                    rows_b |-> <<>>, out |-> res.out]),
                               !.left_keys = l.keys, !.left_group_rows = l.group_rows,
                               !.left_table = l.table]

\* Control is at the second inner while: the first was left for good.
AtWhileRight ==
    \/ join.pc = "while_right"
    \/ join.pc = "while_left" /\ ~LeftFirst

\* One pass of the second inner while: the joiner gets the right group alone.
JoinRightOnly ==
    /\ UNCHANGED <<reduce, map, graph, sort, pair>>
    /\ AtWhileRight
    /\ RightFirst
    /\ LET res == CallJoiner(join.joiner, join.keys, <<>>, join.right_group_rows)
           r == my_next(join.args0, join.keys, GroupbyRead(join.right_table, res.read_b))
       IN join' = [join EXCEPT !.out = @ \o res.out,
                               !.calls = Append(@, [rows_a |-> <<>>,
                                                    rows_b |-> join.right_group_rows,
                                                    out |-> res.out]),
                               !.right_keys = r.keys, !.right_group_rows = r.group_rows,
                               !.right_table = r.table,
                               !.pc = "while_right"]

\* Control is at the if that follows the two inner whiles.
AtIf == AtWhileRight /\ ~RightFirst

\* A break that is taken as soon as one side is exhausted
JoinBreakEither ==
    /\ UNCHANGED <<reduce, map, graph, sort, pair>>
    /\ AtIf
    /\ join.left_keys = None \/ join.right_keys = None
    /\ join' = [join EXCEPT !.pc = "done"]

\* if left_keys is None and right_keys is None: break
JoinBreak ==
    /\ UNCHANGED <<reduce, map, graph, sort, pair>>
    /\ AtIf
    /\ join.left_keys = None /\ join.right_keys = None
    /\ join' = [join EXCEPT !.pc = "done"]

\* elif left_keys == right_keys: the joiner gets both groups
JoinMatched ==
    /\ UNCHANGED <<reduce, map, graph, sort, pair>>
    /\ AtIf
    /\ ~(join.left_keys = None /\ join.right_keys = None)
    /\ join.left_keys = join.right_keys
    /\ LET res == CallJoiner(join.joiner, join.keys,
                             join.left_group_rows, join.right_group_rows)
       IN join' = [join EXCEPT !.out = @ \o res.out,
                               !.calls = Append(@, [rows_a |-> join.left_group_rows,
                                                    rows_b |-> join.right_group_rows,
                                                    out |-> res.out]),
                               !.left_table = GroupbyRead(@, res.read_a),
                               !.right_table = GroupbyRead(@, res.read_b),
                               !.pc = "fetch"]

\* Neither branch of the if: the loop starts over with both groups still held.
JoinNoMatch ==
    /\ UNCHANGED <<reduce, map, graph, sort, pair>>
    /\ AtIf
    /\ ~(join.left_keys = None /\ join.right_keys = None)
    /\ join.left_keys # join.right_keys
    /\ join' = [join EXCEPT !.pc = "fetch"]

JoinNext ==
    \/ JoinFetch
    \/ JoinLeftOnly
    \/ JoinRightOnly
    \/ JoinBreak
    \/ JoinMatched
    \/ JoinNoMatch

SpecJoin == JoinInit /\ [][JoinNext]_vars

\* Join.__call__ is called with two finite streams in any order of their
\* keys, of MaxRows + 1 rows together at most.
JoinInitAny ==
    /\ reduce = Idle /\ map = Idle /\ graph = Idle /\ sort = Idle /\ pair = Idle
    /\ \E j \in Joiners, m \in 0..MaxRows, n \in 0..MaxRows :
       \E lk \in KeySeqs(m), rk \in KeySeqs(n) :
          /\ m + n <= MaxRows + 1
          /\ join = [keys |-> <<"k">>, joiner |-> j,
                     rows |-> MkTable(<<"k", "a">>, <<"k">>, lk, 100),
                     args0 |-> MkTable(<<"k", "b">>, <<"k">>, rk, 200),
                     left_table |-> groupby, right_table |-> groupby,
                     left_keys |-> None, left_group_rows |-> <<>>,
                     right_keys |-> None, right_group_rows |-> <<>>,
                     pc |-> "fetch", out |-> <<>>, calls |-> <<>>]

\* The consumer goes on advancing the stream, so the generator goes on
\* running as long as it has a step to take.
SpecJoinAny == JoinInitAny /\ [][JoinNext]_vars /\ WF_vars(JoinNext)

\* left_keys is not None and (right_keys is None or left_keys < right_keys),
\* and the same test with the sides exchanged
KeysFirst(a_keys, b_keys) ==
    IF a_keys = None THEN FALSE
    ELSE IF b_keys = None THEN TRUE
    ELSE ListLess(a_keys[1], b_keys[1])

\* An inner while of Join.__call__ run to its end on the side whose rows
\* are mine and whose current group is cur: the joiner gets each group
\* alone while its key comes first; out collects what is yielded.
\* JoinWhileCall is the rest of a pass once the joiner has given res.
RECURSIVE JoinWhile(_, _, _, _, _, _, _), JoinWhileCall(_, _, _, _, _, _, _, _)
JoinWhile(j, keys, mine, cur, other_keys, is_left, out) ==
    IF ~KeysFirst(cur.keys, other_keys) THEN [cur |-> cur, out |-> out]
    ELSE JoinWhileCall(j, keys, mine, cur, other_keys, is_left, out,
                       IF is_left THEN CallJoiner(j, keys, cur.group_rows, <<>>)
                       ELSE CallJoiner(j, keys, <<>>, cur.group_rows))

JoinWhileCall(j, keys, mine, cur, other_keys, is_left, out, res) ==
    JoinWhile(j, keys, mine,
              my_next(mine, keys,
                      GroupbyRead(cur.table, IF is_left THEN res.read_a ELSE res.read_b)),
              other_keys, is_left, out \o res.out)

\* Join.__call__ from the top of its while True loop on, with the two
\* grouped tables as they stand: everything it yields until it breaks.
\* JoinRightWhile is the loop's body from the second inner while on, with
\* the right group r0 and the result lw of the first inner while; JoinIf is
\* the if after the two inner whiles, with the left group l and the
\* result rw of the second; JoinIfMatched is its elif branch once the
\* joiner has given res.
RECURSIVE JoinLoop(_, _, _, _, _, _, _), JoinRightWhile(_, _, _, _, _, _),
          JoinIf(_, _, _, _, _, _), JoinIfMatched(_, _, _, _, _, _, _, _)
JoinLoop(j, keys, rows, args0, left_table, right_table, out) ==
    JoinRightWhile(j, keys, rows, args0,
                   my_next(args0, keys, right_table),
                   JoinWhile(j, keys, rows, my_next(rows, keys, left_table),
                             my_next(args0, keys, right_table).keys, TRUE, out))

JoinRightWhile(j, keys, rows, args0, r0, lw) ==
    JoinIf(j, keys, rows, args0, lw.cur,
           JoinWhile(j, keys, args0, r0, lw.cur.keys, FALSE, lw.out))

JoinIf(j, keys, rows, args0, l, rw) ==
    IF l.keys = None /\ rw.cur.keys = None THEN rw.out
    ELSE IF l.keys = rw.cur.keys
         THEN JoinIfMatched(j, keys, rows, args0, l, rw.cur, rw.out,
                            CallJoiner(j, keys, l.group_rows, rw.cur.group_rows))
         ELSE JoinLoop(j, keys, rows, args0, l.table, rw.cur.table, rw.out)

JoinIfMatched(j, keys, rows, args0, l, r, out, res) ==
    JoinLoop(j, keys, rows, args0,
             GroupbyRead(l.table, res.read_a), GroupbyRead(r.table, res.read_b),
             out \o res.out)

\* Join(joiner, keys)(rows, args0) run to its end: the rows it yields
JoinCall(j, keys, rows, args0) == JoinLoop(j, keys, rows, args0, groupby, groupby, <<>>)

\* ----------------------------------------------------------------- Reduce

\* FirstReducer: the first row of the group; it reads no other row
FirstReducer(group_key, rows) ==
    IF rows = <<>> THEN [out |-> <<>>, read |-> 0]
    ELSE [out |-> <<rows[1]>>, read |-> 1]

\* {column: row[column] for column in group_key}
KeyRow(group_key, row) ==
    [i \in 1..Len(group_key) |-> <<group_key[i], Get(row, group_key[i])>>]

\* A Count that does not count the row it takes the keys from
CountSkipFirst(column, group_key, rows) ==
    IF group_key[1] = column
    THEN [out |-> <<DictSet(<<>>, column, Len(rows))>>, read |-> Len(rows)]
    ELSE [out |-> <<IF rows = <<>> THEN <<>>
                    ELSE DictSet(KeyRow(group_key, rows[1]), column, Len(rows) - 1)>>,
          read |-> Len(rows)]

\* Count(column): one row with the group's keys and its number of rows
Count(column, group_key, rows) ==
    IF group_key[1] = column
    THEN [out |-> <<DictSet(<<>>, column, Len(rows))>>, read |-> Len(rows)]
    ELSE [out |-> <<IF rows = <<>> THEN <<>>
                    ELSE DictSet(KeyRow(group_key, rows[1]), column, Len(rows))>>,
          read |-> Len(rows)]

\* Sum(column): new_row = {column: 0, group_key[0]: ""}, then for every row
\* new_row[group_key[0]] = row[group_key[0]]; new_row[column] += row[column]
RECURSIVE SumLoop(_, _, _, _, _)
SumLoop(new_row, column, group_key, rows, i) ==
    IF i > Len(rows) THEN new_row
    ELSE LET keyed == DictSet(new_row, group_key[1], Get(rows[i], group_key[1])) IN
         SumLoop(DictSet(keyed, column, Get(keyed, column) + Get(rows[i], column)),
                 column, group_key, rows, i + 1)

Sum(column, group_key, rows) ==
    [out |-> <<SumLoop(DictSet(DictSet(<<>>, column, 0), group_key[1], ""),
                       column, group_key, rows, 1)>>,
     read |-> Len(rows)]

\* The order of the heap's entries (row[column_max], num_row, row): tuples
\* compare from the left and num_row differs between any two entries
ItemLess(x, y) == x[1] < y[1] \/ (x[1] = y[1] /\ x[2] < y[2])

\* heapq._siftdown(heap, startpos, pos) with newitem lifted out of pos;
\* positions count from 0 as in the library
RECURSIVE siftdown(_, _, _, _)
siftdown(heap, startpos, pos, newitem) ==
    IF pos > startpos /\ ItemLess(newitem, heap[((pos - 1) \div 2) + 1])
    THEN siftdown([heap EXCEPT ![pos + 1] = heap[((pos - 1) \div 2) + 1]],
                  startpos, (pos - 1) \div 2, newitem)
    ELSE [heap EXCEPT ![pos + 1] = newitem]

\* heapq.heappush(heap, item): heap.append(item); _siftdown(heap, 0, len(heap)-1)
heappush(heap, item) == siftdown(Append(heap, item), 0, Len(heap), item)

\* heapq._siftup(heap, pos): the smaller child is moved up until a leaf is
\* reached, then newitem is sifted down from there
RECURSIVE siftup(_, _, _, _)
siftup(heap, startpos, pos, newitem) ==
    LET childpos == 2 * pos + 1
        rightpos == childpos + 1
        child == IF rightpos < Len(heap)
                    /\ ~ItemLess(heap[childpos + 1], heap[rightpos + 1])
                 THEN rightpos ELSE childpos
    IN IF childpos < Len(heap)
       THEN siftup([heap EXCEPT ![pos + 1] = heap[child + 1]], startpos, child, newitem)
       ELSE siftdown([heap EXCEPT ![pos + 1] = newitem], startpos, pos, newitem)

\* heapq.heappop(heap): the heap after its smallest entry is removed
heappop(heap) ==
    LET lastelt == heap[Len(heap)]
        rest == SubSeq(heap, 1, Len(heap) - 1)
    IN IF rest = <<>> THEN rest
       ELSE siftup([rest EXCEPT ![1] = lastelt], 0, 0, lastelt)

\* TopN.__call__: the loop over enumerate(rows) from the i-th row on
RECURSIVE TopNLoop(_, _, _, _, _)
TopNLoop(h, column_max, n, rows, i) ==
    IF i > Len(rows) THEN h
    ELSE LET pushed == heappush(h, <<Get(rows[i], column_max), i - 1, rows[i]>>) IN
         TopNLoop(IF Len(pushed) = n + 1 THEN heappop(pushed) ELSE pushed,
                  column_max, n, rows, i + 1)

\* TopN(column, n): for i, num_row, row in h[::-1]: yield row
TopN(column_max, n, group_key, rows) ==
    LET h == TopNLoop(<<>>, column_max, n, rows, 1) IN
    [out |-> [x \in 1..Len(h) |-> h[Len(h) + 1 - x][3]], read |-> Len(rows)]

\* The greatest common divisor of two positive numbers
GCD(a, b) == MaxOf({d \in 1..a : a % d = 0 /\ b % d = 0})

\* a / b of two positive numbers: the quotient as a fraction in lowest
\* terms, so that equal quotients are equal values
TrueDiv(a, b) == <<a \div GCD(a, b), b \div GCD(a, b)>>

\* del row[column]
DictDel(row, column) == SelectSeq(row, LAMBDA pr : pr[1] # column)

\* counter[w] after the first loop of TermFrequency: the rows whose
\* words_column is w
CounterOf(words_column, rows, w) ==
    Cardinality({i \in 1..Len(rows) : Get(rows[i], words_column) = w})

\* list_rows of TermFrequency: the first row of every value of words_column
ListRows(words_column, rows) ==
    SelectSeq([i \in 1..Len(rows) |-> <<i, rows[i]>>],
              LAMBDA ir : \A j \in 1..(ir[1] - 1) :
                  Get(rows[j], words_column) # Get(ir[2], words_column))

\* TermFrequency(words_column, result_column): every row of list_rows gets
\* row[result_column] = counter[row[words_column]] / count_row and loses
\* its column "count"
TermFrequency(words_column, result_column, group_key, rows) ==
    LET list_rows == ListRows(words_column, rows) IN
    [out |-> [x \in 1..Len(list_rows) |->
                LET row == list_rows[x][2]
                    tf == TrueDiv(CounterOf(words_column, rows, Get(row, words_column)),
                                  Len(rows))
                    set == DictSet(row, result_column, tf)
                IN IF Has(set, "count") THEN DictDel(set, "count") ELSE set],
     read |-> Len(rows)]

Reducers == {"FirstReducer", "Count", "Sum", "TopN", "TermFrequency"}

\* The constructor arguments a reducer of class r is made with: column and
\* n, and for TermFrequency column is the words column, result the result
\* column
ReducerArgs(r) ==
    CASE r = "FirstReducer" -> {[column |-> "", n |-> 0, result |-> ""]}
      [] r = "Count" -> {[column |-> c, n |-> 0, result |-> ""] : c \in {"count", "k", "v"}}
      [] r = "Sum" -> {[column |-> c, n |-> 0, result |-> ""] : c \in {"k", "v"}}
      [] r = "TopN" -> {[column |-> "v", n |-> n, result |-> ""] : n \in 0..MaxRows}
      [] r = "TermFrequency" ->
            {[column |-> "v", n |-> 0, result |-> c] : c \in {"tf", "count"}}

\* self.reducer(tuple(self.keys), group_rows)
CallReducer(r, group_key, rows) ==
    CASE r = "FirstReducer" -> FirstReducer(group_key, rows)
      [] r = "Count" -> Count(reduce.args.column, group_key, rows)
      [] r = "Sum" -> Sum(reduce.args.column, group_key, rows)
      [] r = "TopN" -> TopN(reduce.args.column, reduce.args.n, group_key, rows)
      [] r = "TermFrequency" ->
            TermFrequency(reduce.args.column, reduce.args.result, group_key, rows)

\* The rows of a stream with a key column k and a value column v
KVRows == {<<<<"k", k>>, <<"v", v>>>> : k \in 1..MaxGroupKey, v \in 1..MaxVal}

\* The streams of n such rows
KVStreams(n) == [1..n -> KVRows]

\* The same stream with a column id that tells its rows apart: the
\* position of the row in the stream
WithId(rows) == [i \in 1..Len(rows) |-> Append(rows[i], <<"id", i>>)]

ReduceInit ==
    /\ join = Idle /\ map = Idle /\ graph = Idle /\ sort = Idle /\ pair = Idle
    /\ \E r \in Reducers, ks \in {<<"k">>, <<"k", "v">>, <<"k", "id">>}, n \in 0..MaxRows :
       \E rows \in KVStreams(n), args \in ReducerArgs(r) :
          reduce = [reducer |-> r, args |-> args, keys |-> ks, rows |-> WithId(rows),
                    table |-> groupby, pc |-> "groupby", out |-> <<>>, calls |-> <<>>]

\* One pass of the for loop over groupby: the reducer is called with the
\* next group and everything it yields is forwarded.
ReduceGroup ==
    /\ UNCHANGED <<join, map, graph, sort, pair>>
    /\ reduce.pc = "groupby"
    /\ LET g == GroupbyNext(reduce.rows, reduce.keys, reduce.table) IN
       /\ ~g.stop
       /\ LET res == CallReducer(reduce.reducer, reduce.keys, g.group) IN
          reduce' = [reduce EXCEPT
                        !.out = @ \o res.out,
                        !.calls = Append(@, [start |-> g.gb.start, group |-> g.group,
                                             read |-> res.read, out |-> res.out]),
                        !.table = GroupbyRead(g.gb, res.read)]

\* groupby is exhausted: the for loop and the stream end.
ReduceStop ==
    /\ UNCHANGED <<join, map, graph, sort, pair>>
    /\ reduce.pc = "groupby"
    /\ GroupbyNext(reduce.rows, reduce.keys, reduce.table).stop
    /\ reduce' = [reduce EXCEPT !.pc = "done"]

ReduceNext ==
    \/ ReduceGroup
    \/ ReduceStop

SpecReduce == ReduceInit /\ [][ReduceNext]_vars

\* -------------------------------------------------------------------- Map

\* DummyMapper: exactly the row passed
DummyMapper(row) == <<row>>

\* MoreTwice(column): the row when its value in column exceeds 1
MoreTwice(column, row) == IF Get(row, column) > 1 THEN <<row>> ELSE <<>>

\* Split.__init__: the default separator "\n\t  ", one element per
\* character (nbsp stands for the no-break space)
separator == {"\n", "\t", "nbsp", " "}

\* A loop that yields sub_str at a separator only when it is not empty
RECURSIVE split_loop_nonempty(_, _, _)
split_loop_nonempty(string, i, sub_str) ==
    IF i > Len(string) THEN <<sub_str>>
    ELSE IF string[i] \notin separator
         THEN split_loop_nonempty(string, i + 1, Append(sub_str, string[i]))
         ELSE (IF sub_str = <<>> THEN <<>> ELSE <<sub_str>>)
                  \o split_loop_nonempty(string, i + 1, <<>>)

\* Split.split: the loop over the characters of string, from the i-th on,
\* with sub_str collected so far; a text is a sequence of characters
RECURSIVE split_loop(_, _, _)
split_loop(string, i, sub_str) ==
    IF i > Len(string) THEN <<sub_str>>
    ELSE IF string[i] \notin separator
         THEN split_loop(string, i + 1, Append(sub_str, string[i]))
         ELSE <<sub_str>> \o split_loop(string, i + 1, <<>>)

\* A split that lacks the yield after the loop
split_in_loop_only(string) ==
    LET toks == split_loop(string, 1, <<>>) IN SubSeq(toks, 1, Len(toks) - 1)

split(string) == split_loop(string, 1, <<>>)

\* Split(column): one copy of the row per token, column holding the token
Split(column, row) ==
    LET toks == split(Get(row, column)) IN
    [t \in 1..Len(toks) |->
        [p \in 1..Len(row) |->
            IF row[p][1] # column THEN row[p] ELSE <<column, toks[t]>>]]

\* LogarithmOfRatioOfColumn(first_column, second_column, result_column):
\* the row itself gets the result column and loses the two columns, and is
\* yielded; the logarithm of a quotient is kept as the quotient
LogarithmOfRatioOfColumn(first_column, second_column, result_column, row) ==
    LET set == DictSet(row, result_column,
                       <<"log", TrueDiv(Get(row, first_column), Get(row, second_column))>>)
    IN <<DictDel(DictDel(set, first_column), second_column)>>

Mappers == {"DummyMapper", "MoreTwice", "Split"}

\* self.mapper(row)
CallMapper(m, row) ==
    CASE m = "DummyMapper" -> DummyMapper(row)
      [] m = "MoreTwice" -> MoreTwice("v", row)
      [] m = "Split" -> Split("text", row)
      [] m = "LogarithmOfRatioOfColumn" -> LogarithmOfRatioOfColumn("v", "w", "r", row)

\* The mapper reads a column the row does not have: row[column] raises KeyError
MapperRaises(m, row) ==
    CASE m = "DummyMapper" -> FALSE
      [] m = "MoreTwice" -> ~Has(row, "v")
      [] m = "Split" -> ~Has(row, "text")
      [] m = "LogarithmOfRatioOfColumn" -> ~Has(row, "v") \/ ~Has(row, "w")

\* The mapper changes the row it is given and yields that same row
MapperInPlace(m) == m = "LogarithmOfRatioOfColumn"

\* The rows with a value column v, and the streams of n of them
VRows == {<<<<"v", v>>>> : v \in 1..MaxVal}

VStreams(n) == [1..n -> VRows]

\* The texts of a text column: a letter and a separator, MaxText at most
Texts == UNION {[1..n -> {"a", " "}] : n \in 0..MaxText}

\* The stream of rows with the texts ts in their text column
TextStream(ts) == [i \in 1..Len(ts) |-> <<<<"doc_id", i>>, <<"text", ts[i]>>>>]

\* The upstreams of n rows a mapper is run on
MapStreams(m, n) ==
    IF m = "Split" THEN {TextStream(ts) : ts \in [1..n -> Texts]} ELSE VStreams(n)

MapInit ==
    /\ join = Idle /\ reduce = Idle /\ graph = Idle /\ sort = Idle /\ pair = Idle
    /\ \E m \in Mappers, n \in 0..MaxRows :
          \E rows \in MapStreams(m, n) :
              map = [mapper |-> m, rows |-> rows, pos |-> 0, pc |-> "for", out |-> <<>>]

\* A pass of the outer for loop that forwards only the first row the mapper yields
MapRowFirstOnly ==
    /\ UNCHANGED <<join, reduce, graph, sort, pair>>
    /\ map.pc = "for"
    /\ map.pos < Len(map.rows)
    /\ LET res == CallMapper(map.mapper, map.rows[map.pos + 1]) IN
       map' = [map EXCEPT !.pos = @ + 1,
                          !.out = @ \o (IF res = <<>> THEN <<>> ELSE <<res[1]>>)]

\* One pass of the outer for loop: every row the mapper yields for the next
\* upstream row is forwarded.
MapRow ==
    /\ UNCHANGED <<join, reduce, graph, sort, pair>>
    /\ map.pc = "for"
    /\ map.pos < Len(map.rows)
    /\ map' = [map EXCEPT !.pos = @ + 1,
                          !.out = @ \o CallMapper(map.mapper, map.rows[map.pos + 1])]

\* The upstream is exhausted: the stream ends.
MapStop ==
    /\ UNCHANGED <<join, reduce, graph, sort, pair>>
    /\ map.pc = "for"
    /\ map.pos = Len(map.rows)
    /\ map' = [map EXCEPT !.pc = "done"]

MapNext ==
    \/ MapRow
    \/ MapStop

SpecMap == MapInit /\ [][MapNext]_vars

\* ------------------------------------------------------------------- Sort

\* The rows sorted so far with one more row put after the rows whose key
\* is not greater than its own
SortInsert(keys, sorted, row) ==
    LET n == Cardinality({i \in 1..Len(sorted) :
                             ~ListLess(sort_func(keys, row), sort_func(keys, sorted[i]))})
    IN SubSeq(sorted, 1, n) \o <<row>> \o SubSeq(sorted, n + 1, Len(sorted))

\* ExternalSort(keys)(rows): the rows in non-decreasing order of their keys,
\* rows of equal keys in the order of their arrival
RECURSIVE ExternalSort(_, _, _, _)
ExternalSort(keys, rows, i, sorted) ==
    IF i > Len(rows) THEN sorted
    ELSE ExternalSort(keys, rows, i + 1, SortInsert(keys, sorted, rows[i]))

\* The orders of the rows in which the keys never decrease: the in-memory
\* sort of a run, which need not be stable
SortedRuns(keys, rows) ==
    {[x \in 1..Len(rows) |-> rows[p[x]]] :
        p \in {q \in [1..Len(rows) -> 1..Len(rows)] :
                  /\ \A x, y \in 1..Len(rows) : x # y => q[x] # q[y]
                  /\ \A x \in 1..(Len(rows) - 1) :
                        ~ListLess(sort_func(keys, rows[q[x + 1]]),
                                  sort_func(keys, rows[q[x]]))}}

\* A merge that takes the first row of any run that has rows left
AnyHeads(keys, runs) == {i \in 1..Len(runs) : runs[i] # <<>>}

\* The runs the merge can take its next row from: those whose first row has
\* the least key among the first rows of the runs
MinHeads(keys, runs) ==
    {i \in 1..Len(runs) :
        /\ runs[i] # <<>>
        /\ \A j \in 1..Len(runs) :
              runs[j] # <<>> =>
                  ~ListLess(sort_func(keys, runs[j][1]), sort_func(keys, runs[i][1]))}

SortInit ==
    /\ join = Idle /\ reduce = Idle /\ map = Idle /\ graph = Idle /\ pair = Idle
    /\ \E keys \in {<<"k">>, <<"k", "v">>, <<"v", "k">>}, n \in 0..MaxRows :
       \E rows \in KVStreams(n) :
          sort = [keys |-> keys, rows |-> WithId(rows), pos |-> 0, runs |-> <<>>,
                  out |-> <<>>, pc |-> "read"]

\* The next rows of the upstream, as many as memory holds, are sorted and
\* put aside as a run.
SortSpill ==
    /\ UNCHANGED <<join, reduce, map, graph, pair>>
    /\ sort.pc = "read"
    /\ sort.pos < Len(sort.rows)
    /\ LET last == MinOf({sort.pos + MaxRun, Len(sort.rows)}) IN
       \E run \in SortedRuns(sort.keys, SubSeq(sort.rows, sort.pos + 1, last)) :
           sort' = [sort EXCEPT !.runs = Append(@, run), !.pos = last]

\* The upstream is exhausted: the merge of the runs begins.
SortMergeStart ==
    /\ UNCHANGED <<join, reduce, map, graph, pair>>
    /\ sort.pc = "read"
    /\ sort.pos = Len(sort.rows)
    /\ sort' = [sort EXCEPT !.pc = "merge"]

\* The merge yields the first row of a run with the least key.
SortMerge ==
    /\ UNCHANGED <<join, reduce, map, graph, pair>>
    /\ sort.pc = "merge"
    /\ \E i \in MinHeads(sort.keys, sort.runs) :
          sort' = [sort EXCEPT !.out = Append(@, sort.runs[i][1]),
                               !.runs[i] = Tail(@)]

\* The runs are empty: the stream ends.
SortStop ==
    /\ UNCHANGED <<join, reduce, map, graph, pair>>
    /\ sort.pc = "merge"
    /\ \A i \in 1..Len(sort.runs) : sort.runs[i] = <<>>
    /\ sort' = [sort EXCEPT !.pc = "done"]

SortNext ==
    \/ SortSpill
    \/ SortMergeStart
    \/ SortMerge
    \/ SortStop

SpecSort == SortInit /\ [][SortNext]_vars

\* ------------------------------------------------------------------ Graph

\* Graph.graph_from_iter(name): Graph(ops.ReadIterFactory(name)), no operations
graph_from_iter(name) ==
    [reader |-> [op |-> "ReadIterFactory", name |-> name], operations |-> <<>>]

\* Graph.graph_from_file(name, parser): Graph(ops.Read(name, parser))
graph_from_file(name) ==
    [reader |-> [op |-> "Read", name |-> name], operations |-> <<>>]

\* A graph_from_ that takes the iterator reader whatever it is given
graph_from_no_parser(name, parser) ==
    [reader |-> [op |-> "ReadIterFactory", name |-> name], operations |-> <<>>]

\* Graph.graph_from_(name, parser): the iterator reader when parser is None,
\* the file reader with the parser otherwise
graph_from_(name, parser) ==
    IF parser = None
    THEN [reader |-> [op |-> "ReadIterFactory", name |-> name], operations |-> <<>>]
    ELSE [reader |-> [op |-> "Read", name |-> name], operations |-> <<>>]

\* A push_operations that puts the new operation before the others
push_operations_front(g, operation, args) ==
    [g EXCEPT !.operations = <<[operation |-> operation, args |-> args]>> \o @]

\* Graph.push_operations: self.operations.append((operation, args))
push_operations(g, operation, args) ==
    [g EXCEPT !.operations = Append(@, [operation |-> operation, args |-> args])]

\* Graph.map: push_operations(ops.Map(mapper)); return self
graph_map(g, mapper) == push_operations(g, [op |-> "Map", mapper |-> mapper], <<>>)

\* Graph.reduce: push_operations(ops.Reduce(reducer, keys)); return self
graph_reduce(g, reducer, keys) ==
    push_operations(g, [op |-> "Reduce", reducer |-> reducer, keys |-> keys], <<>>)

\* Graph.sort: push_operations(ex.ExternalSort(keys)); return self
graph_sort(g, keys) == push_operations(g, [op |-> "ExternalSort", keys |-> keys], <<>>)

\* Graph.join: push_operations(ops.Join(joiner, keys), join_graph); return self
graph_join(g, joiner, join_graph, keys) ==
    push_operations(g, [op |-> "Join", joiner |-> joiner, keys |-> keys], <<join_graph>>)

\* The graph has a stage of the kind op
HasStage(g, op) == \E i \in 1..Len(g.operations) : g.operations[i].operation.op = op

\* The graph has a Map stage with the mapper m
HasMapper(g, m) ==
    \E i \in 1..Len(g.operations) :
        /\ g.operations[i].operation.op = "Map"
        /\ g.operations[i].operation.mapper = m

\* The source names the graph and the graphs it joins with read from
RECURSIVE SourceNames(_)
SourceNames(g) ==
    {g.reader.name} \cup
    UNION {IF g.operations[i].operation.op = "Join"
           THEN SourceNames(g.operations[i].args[1]) ELSE {} :
           i \in 1..Len(g.operations)}

\* A reader that ends one row before its iterator does
ReadIterFactoryShort(kwargs, name, pos) ==
    IF pos + 1 < Len(kwargs[name]) THEN Some(kwargs[name][pos + 1]) ELSE None

\* ReadIterFactory.__call__ after pos rows: the next row of kwargs[name](),
\* None at its end
ReadIterFactory(kwargs, name, pos) ==
    IF pos < Len(kwargs[name]) THEN Some(kwargs[name][pos + 1]) ELSE None

\* Line reading that passes over the lines with nothing but their newline
RECURSIVE readlines_skip_blank(_, _, _)
readlines_skip_blank(text, i, line) ==
    IF i > Len(text) THEN (IF line = <<>> THEN <<>> ELSE <<line>>)
    ELSE IF text[i] = "\n"
         THEN (IF line = <<>> THEN <<>> ELSE <<Append(line, "\n")>>)
                  \o readlines_skip_blank(text, i + 1, <<>>)
         ELSE readlines_skip_blank(text, i + 1, Append(line, text[i]))

\* for line in f: the lines of the file's text from its i-th character on,
\* each with its newline, the last one without when the text does not end
\* with one; line holds the characters of the line read so far
RECURSIVE readlines(_, _, _)
readlines(text, i, line) ==
    IF i > Len(text) THEN (IF line = <<>> THEN <<>> ELSE <<line>>)
    ELSE IF text[i] = "\n"
         THEN <<Append(line, "\n")>> \o readlines(text, i + 1, <<>>)
         ELSE readlines(text, i + 1, Append(line, text[i]))

\* parser(line): dict(eval(line)).  The character "1" stands for the text of
\* the mapping {'v': 1, 'w': 1} and "2" for that of {'v': 2, 'w': 1}; eval
\* raises SyntaxError on a line with no expression and on one with two.
parser(line) ==
    LET body == SelectSeq(line, LAMBDA c : c # "\n") IN
    IF Len(body) # 1 THEN [row |-> None, err |-> Some("SyntaxError")]
    ELSE [row |-> Some(<<<<"v", IF body[1] = "1" THEN 1 ELSE 2>>, <<"w", 1>>>>),
          err |-> None]

\* Read.__call__ after pos lines: parser(line) of the next line of the
\* file, None at its end
Read(kwargs, name, pos) ==
    LET lines == readlines(kwargs[name], 1, <<>>) IN
    IF pos < Len(lines) THEN parser(lines[pos + 1])
    ELSE [row |-> None, err |-> None]

\* A stream whose source thunk is called when run() is called
InitStreamOpened(g) ==
    [pos |-> 0,
     pending |-> [i \in 1..Len(g.operations) |-> <<>>],
     joined |-> [i \in 1..Len(g.operations) |-> FALSE],
     tgtkey |-> [i \in 1..Len(g.operations) |-> None],
     parsed |-> <<>>,
     opened |-> {g.reader.name}]

\* The stream of a graph before its first advance: pos rows or lines were
\* read from the source, pending[i] are the rows stage i has yet to yield,
\* joined[i] tells that the Join or the sort of stage i has run, tgtkey[i] is
\* the key of the group the groupby of the Reduce of stage i handed out
\* last, parsed are the lines the parser was called with, opened the source
\* names whose thunk was called
InitStream(g) ==
    [pos |-> 0,
     pending |-> [i \in 1..Len(g.operations) |-> <<>>],
     joined |-> [i \in 1..Len(g.operations) |-> FALSE],
     tgtkey |-> [i \in 1..Len(g.operations) |-> None],
     parsed |-> <<>>,
     opened |-> {}]

\* The result of an advance: a row, the end of the stream or an error
Result(st, kwargs, row, err) == [st |-> st, kwargs |-> kwargs, row |-> row, err |-> err]

\* A reader that takes a name without a binding for an empty source
PullReaderDefault(reader, kwargs, st) ==
    IF reader.name \notin DOMAIN kwargs THEN Result(st, kwargs, None, None)
    ELSE IF reader.op = "ReadIterFactory"
    THEN LET r == ReadIterFactory(kwargs, reader.name, st.pos) IN
         Result(IF r = None THEN [st EXCEPT !.opened = @ \cup {reader.name}]
                ELSE [st EXCEPT !.pos = @ + 1, !.opened = @ \cup {reader.name}],
                kwargs, r, None)
    ELSE LET r == Read(kwargs, reader.name, st.pos) IN
         IF r.row = None /\ r.err = None
         THEN Result([st EXCEPT !.opened = @ \cup {reader.name}], kwargs, None, None)
         ELSE Result([st EXCEPT !.pos = @ + 1,
                                !.opened = @ \cup {reader.name},
                                !.parsed = Append(@, readlines(kwargs[reader.name],
                                                               1, <<>>)[st.pos + 1])],
                     kwargs, r.row, r.err)

\* One advance of the reader's stream: kwargs[self.name] raises KeyError
\* when the name has no binding
PullReader(reader, kwargs, st) ==
    IF reader.name \notin DOMAIN kwargs THEN Result(st, kwargs, None, Some("KeyError"))
    ELSE IF reader.op = "ReadIterFactory"
    THEN LET r == ReadIterFactory(kwargs, reader.name, st.pos) IN
         Result(IF r = None THEN [st EXCEPT !.opened = @ \cup {reader.name}]
                ELSE [st EXCEPT !.pos = @ + 1, !.opened = @ \cup {reader.name}],
                kwargs, r, None)
    ELSE LET r == Read(kwargs, reader.name, st.pos) IN
         IF r.row = None /\ r.err = None
         THEN Result([st EXCEPT !.opened = @ \cup {reader.name}], kwargs, None, None)
         ELSE Result([st EXCEPT !.pos = @ + 1,
                                !.opened = @ \cup {reader.name},
                                !.parsed = Append(@, readlines(kwargs[reader.name],
                                                               1, <<>>)[st.pos + 1])],
                     kwargs, r.row, r.err)

\* One advance of the stream that Graph.run composes, seen from stage i
\* (0 is the reader).  A Map stage yields what its mapper has pending, or
\* pulls a row and applies the mapper; a mapper that works in place
\* changes the row of the source's collection that is passing through.  A
\* Join stage runs at its first advance: it takes the first left group,
\* then opens the joined graph's stream, and yields what Join.__call__
\* yields for the two streams.  A Reduce stage with FirstReducer pulls
\* rows until one has another key than the group handed out last (groupby
\* passes over the rest of that group) and yields it.  An ExternalSort stage
\* reads its whole upstream at its first advance and yields the rows in
\* order.  sort_func raises KeyError on a row without a key column.  Drain
\* is the stream run to its end.
RECURSIVE Pull(_, _, _, _), Drain(_, _, _, _, _)
Pull(g, kwargs, st, i) ==
    IF i = 0 THEN PullReader(g.reader, kwargs, st)
    ELSE IF st.pending[i] # <<>>
    THEN Result([st EXCEPT !.pending[i] = Tail(@)], kwargs, Some(Head(st.pending[i])), None)
    ELSE IF g.operations[i].operation.op = "Map"
    THEN LET up == Pull(g, kwargs, st, i - 1)
             m == g.operations[i].operation.mapper
         IN IF up.row = None THEN up
            ELSE IF MapperRaises(m, up.row[1])
            THEN Result(up.st, up.kwargs, None, Some("KeyError"))
            ELSE LET res == CallMapper(m, up.row[1]) IN
                 Pull(g,
                      IF MapperInPlace(m) /\ g.reader.op = "ReadIterFactory"
                      THEN [up.kwargs EXCEPT ![g.reader.name][up.st.pos] = res[1]]
                      ELSE up.kwargs,
                      [up.st EXCEPT !.pending[i] = res], i)
    ELSE IF g.operations[i].operation.op = "Reduce"
    THEN LET up == Pull(g, kwargs, st, i - 1)
             keys == g.operations[i].operation.keys
         IN IF up.row = None THEN up
            ELSE IF \E n \in 1..Len(keys) : ~Has(up.row[1], keys[n])
            THEN Result(up.st, up.kwargs, None, Some("KeyError"))
            ELSE IF up.st.tgtkey[i] = Some(sort_func(keys, up.row[1]))
            THEN Pull(g, up.kwargs, up.st, i)
            ELSE Result([up.st EXCEPT !.tgtkey[i] = Some(sort_func(keys, up.row[1]))],
                        up.kwargs,
                        Some(FirstReducer(keys, <<up.row[1]>>).out[1]), None)
    ELSE IF st.joined[i] THEN Result(st, kwargs, None, None)
    ELSE IF g.operations[i].operation.op = "ExternalSort"
    THEN LET up == Drain(g, kwargs, st, i - 1, <<>>)
             keys == g.operations[i].operation.keys
         IN IF up.err # None THEN Result(up.st, up.kwargs, None, up.err)
            ELSE IF \E x \in 1..Len(up.rows) : \E n \in 1..Len(keys) :
                        ~Has(up.rows[x], keys[n])
            THEN Result(up.st, up.kwargs, None, Some("KeyError"))
            ELSE Pull(g, up.kwargs,
                      [up.st EXCEPT !.joined[i] = TRUE,
                                    !.pending[i] = ExternalSort(keys, up.rows, 1, <<>>)],
                      i)
    ELSE LET left == Drain(g, kwargs, st, i - 1, <<>>)
             join_graph == g.operations[i].args[1]
             right == Drain(join_graph, left.kwargs, InitStream(join_graph),
                            Len(join_graph.operations), <<>>)
         IN IF left.err # None THEN Result(left.st, left.kwargs, None, left.err)
            ELSE IF right.err # None
            THEN Result([left.st EXCEPT !.opened = @ \cup right.st.opened],
                        right.kwargs, None, right.err)
            ELSE Pull(g, right.kwargs,
                      [left.st EXCEPT
                          !.opened = @ \cup right.st.opened,
                          !.joined[i] = TRUE,
                          !.pending[i] = JoinCall(g.operations[i].operation.joiner,
                                                  g.operations[i].operation.keys,
                                                  left.rows, right.rows)],
                      i)

Drain(g, kwargs, st, i, rows) ==
    LET r == Pull(g, kwargs, st, i) IN
    IF r.row = None
    THEN [st |-> r.st, kwargs |-> r.kwargs, rows |-> rows, err |-> r.err]
    ELSE Drain(g, r.kwargs, r.st, i, Append(rows, r.row[1]))

\* The rows of the iterator sources: a column v and a column w
GRows == {<<<<"v", v>>, <<"w", 1>>>> : v \in 1..MaxVal}

\* The texts of a file: the two mapping literals and the newline
FileTexts(n) == [1..n -> {"1", "2", "\n"}]

\* What a binding's thunk can lead to: for the graph's own source the rows
\* of an iterator or the text of a file, for the joined graph's source at
\* most one row
Contents(g, name) ==
    IF name = "other" THEN UNION {[1..n -> GRows] : n \in 0..1}
    ELSE IF g.reader.op = "Read" THEN UNION {FileTexts(n) : n \in 0..MaxChars}
    ELSE UNION {[1..n -> GRows] : n \in 0..MaxRows}

\* The ways a graph is made: the static constructor called and, for
\* graph_from_, whether a parser is passed
Makers ==
    {[by |-> "graph_from_iter", parser |-> None],
     [by |-> "graph_from_file", parser |-> Some("parser")],
     [by |-> "graph_from_", parser |-> None],
     [by |-> "graph_from_", parser |-> Some("parser")]}

\* The graph a static constructor returns
Make(made) ==
    CASE made.by = "graph_from_iter" -> graph_from_iter("name")
      [] made.by = "graph_from_file" -> graph_from_file("name")
      [] made.by = "graph_from_" -> graph_from_("name", made.parser)

\* A graph is made by one of the static constructors; self is the object,
\* g what it holds, call the last builder call and what it returned.
GraphInit ==
    /\ join = Idle /\ reduce = Idle /\ map = Idle /\ sort = Idle /\ pair = Idle
    /\ \E made \in Makers :
          graph = [g |-> Make(made), made |-> made, self |-> "graph", call |-> None,
                   pc |-> "build", kwargs |-> <<>>, bound |-> <<>>,
                   stream |-> InitStream(Make(made)), out |-> <<>>, err |-> None,
                   first |-> None, late |-> <<>>]

\* The builder call map(mapper); the mapper that works in place is put
\* into graphs of Map stages over an iterator source only
GraphMap ==
    /\ UNCHANGED <<join, reduce, map, sort, pair>>
    /\ graph.pc = "build"
    /\ Len(graph.g.operations) < MaxStages
    /\ \E m \in {"DummyMapper", "MoreTwice", "LogarithmOfRatioOfColumn"} :
          /\ m = "LogarithmOfRatioOfColumn" =>
                /\ graph.g.reader.op = "ReadIterFactory"
                /\ ~HasStage(graph.g, "Join")
                /\ ~HasStage(graph.g, "ExternalSort")
          /\ graph' = [graph EXCEPT
                          !.g = graph_map(@, m),
                          !.call = Some([method |-> "map", arg |-> m, args |-> <<>>,
                                         ret |-> graph.self])]

\* The builder call reduce(FirstReducer(), keys)
GraphReduce ==
    /\ UNCHANGED <<join, reduce, map, sort, pair>>
    /\ graph.pc = "build"
    /\ Len(graph.g.operations) < MaxStages
    /\ graph' = [graph EXCEPT
                    !.g = graph_reduce(@, "FirstReducer", <<"v">>),
                    !.call = Some([method |-> "reduce", arg |-> "FirstReducer",
                                   args |-> <<>>, ret |-> graph.self])]

\* The builder call sort(keys)
GraphSort ==
    /\ UNCHANGED <<join, reduce, map, sort, pair>>
    /\ graph.pc = "build"
    /\ Len(graph.g.operations) < MaxStages
    /\ ~HasMapper(graph.g, "LogarithmOfRatioOfColumn")
    /\ graph' = [graph EXCEPT
                    !.g = graph_sort(@, <<"v">>),
                    !.call = Some([method |-> "sort", arg |-> <<"v">>, args |-> <<>>,
                                   ret |-> graph.self])]

\* The builder call join(joiner, join_graph, keys) with a graph that reads
\* the source other
GraphJoin ==
    /\ UNCHANGED <<join, reduce, map, sort, pair>>
    /\ graph.pc = "build"
    /\ Len(graph.g.operations) < MaxStages
    /\ graph.g.reader.op = "ReadIterFactory"
    /\ ~HasMapper(graph.g, "LogarithmOfRatioOfColumn")
    /\ \E j \in {"InnerJoiner", "OuterJoiner"} :
          graph' = [graph EXCEPT
                       !.g = graph_join(@, j, graph_from_iter("other"), <<"v">>),
                       !.call = Some([method |-> "join", arg |-> j,
                                      args |-> <<graph_from_iter("other")>>,
                                      ret |-> graph.self])]

\* run(**kwargs) is called: the generator is made, none of its code has
\* run.  Some of the source names may have no binding.  bound keeps the
\* source collections as they are when run is called, kwargs is what they
\* become.
GraphRun ==
    /\ UNCHANGED <<join, reduce, map, sort, pair>>
    /\ graph.pc = "build"
    /\ \E bound \in SUBSET SourceNames(graph.g) :
       \E kwargs \in [bound -> UNION {Contents(graph.g, nm) : nm \in bound}] :
          /\ \A nm \in bound : kwargs[nm] \in Contents(graph.g, nm)
          /\ graph' = [graph EXCEPT !.kwargs = kwargs,
                                    !.bound = kwargs,
                                    !.stream = InitStream(graph.g),
                                    !.pc = "run"]

\* The result of the caller's next advance of the stream
Advance == Pull(graph.g, graph.kwargs, graph.stream, Len(graph.g.operations))

\* The caller advances the stream and gets a row.
GraphYield ==
    /\ UNCHANGED <<join, reduce, map, sort, pair>>
    /\ graph.pc = "run"
    /\ Advance.err = None
    /\ Advance.row # None
    /\ graph' = [graph EXCEPT !.stream = Advance.st, !.kwargs = Advance.kwargs,
                              !.out = Append(@, Advance.row[1])]

\* The caller advances the stream and it ends.
GraphStop ==
    /\ UNCHANGED <<join, reduce, map, sort, pair>>
    /\ graph.pc = "run"
    /\ Advance.err = None
    /\ Advance.row = None
    /\ graph' = [graph EXCEPT !.stream = Advance.st, !.kwargs = Advance.kwargs,
                              !.pc = "done"]

\* The caller advances the stream and the advance raises.
GraphRaise ==
    /\ UNCHANGED <<join, reduce, map, sort, pair>>
    /\ graph.pc = "run"
    /\ Advance.err # None
    /\ graph' = [graph EXCEPT !.stream = Advance.st, !.kwargs = Advance.kwargs,
                              !.err = Advance.err, !.pc = "error"]

\* An advance of a generator that goes on where it stopped although it has
\* returned or raised
AdvanceResumed(g, kwargs, st) == Pull(g, kwargs, st, Len(g.operations))

\* An advance of the generator run() once it has returned or an exception
\* has left it: the generator is finished and signals the end of the stream
AdvanceFinished(g, kwargs, st) == Result(st, kwargs, None, None)

\* The caller advances the stream again after its end or its failure.
GraphAdvanceOver ==
    /\ UNCHANGED <<join, reduce, map, sort, pair>>
    /\ graph.pc \in {"done", "error"}
    /\ Len(graph.late) < MaxLate
    /\ LET r == AdvanceFinished(graph.g, graph.kwargs, graph.stream) IN
       graph' = [graph EXCEPT !.stream = r.st, !.kwargs = r.kwargs,
                              !.late = Append(@, [row |-> r.row, err |-> r.err])]

\* The first run is over and run is called again with the same bindings:
\* their thunks give fresh iterators over the same collections.
GraphRunAgain ==
    /\ UNCHANGED <<join, reduce, map, sort, pair>>
    /\ graph.pc \in {"done", "error"}
    /\ graph.first = None
    /\ graph' = [graph EXCEPT
                    !.first = Some([pc |-> graph.pc, out |-> graph.out, err |-> graph.err]),
                    !.stream = InitStream(graph.g),
                    !.out = <<>>, !.err = None, !.late = <<>>, !.pc = "run"]

GraphNext ==
    \/ GraphMap
    \/ GraphReduce
    \/ GraphSort
    \/ GraphJoin
    \/ GraphRun
    \/ GraphYield
    \/ GraphStop
    \/ GraphRaise
    \/ GraphAdvanceOver
    \/ GraphRunAgain

Spec == GraphInit /\ [][GraphNext]_vars

\* ------------------------------------------- two runs of the same graph

\* The stages the graphs that are run twice are built from
PairStages ==
    {"DummyMapper", "MoreTwice", "LogarithmOfRatioOfColumn", "FirstReducer",
     "ExternalSort", "InnerJoiner", "OuterJoiner"}

\* The builder call that puts the stage s into the graph
AddStage(g, s) ==
    CASE s \in {"DummyMapper", "MoreTwice", "LogarithmOfRatioOfColumn"} -> graph_map(g, s)
      [] s = "FirstReducer" -> graph_reduce(g, s, <<"v">>)
      [] s = "ExternalSort" -> graph_sort(g, <<"v">>)
      [] s \in {"InnerJoiner", "OuterJoiner"} ->
            graph_join(g, s, graph_from_iter("other"), <<"v">>)

\* The graph after the builder calls for the stages ss, from the i-th on
RECURSIVE BuildGraph(_, _, _)
BuildGraph(g, ss, i) ==
    IF i > Len(ss) THEN g ELSE BuildGraph(AddStage(g, ss[i]), ss, i + 1)

\* The graphs that are run: the mapper that works in place is in graphs
\* over an iterator without Join and sort, a Join in graphs over an iterator
Runnable(g) ==
    /\ HasMapper(g, "LogarithmOfRatioOfColumn") =>
           /\ g.reader.op = "ReadIterFactory"
           /\ ~HasStage(g, "Join")
           /\ ~HasStage(g, "ExternalSort")
    /\ HasStage(g, "Join") => g.reader.op = "ReadIterFactory"

\* The bindings of all the source names of a graph
Bindings(g) ==
    {kwargs \in [SourceNames(g) -> UNION {Contents(g, nm) : nm \in SourceNames(g)}] :
        \A nm \in SourceNames(g) : kwargs[nm] \in Contents(g, nm)}

\* A run whose stages go on from where the stages of another run are
StreamOfStages(g, running) ==
    [InitStream(g) EXCEPT !.pending = running.pending, !.joined = running.joined,
                          !.tgtkey = running.tgtkey]

\* The stream of a run of the graph while another run of it is going on:
\* run() composes new generators, the operations keep nothing of a run
StreamBeside(g, running) == InitStream(g)

\* A run of the graph: its bindings as they were given, the source
\* collections as they are, its stream and what the caller has got
NewRun(g, kwargs, stream) ==
    [bound |-> kwargs, kwargs |-> kwargs, stream |-> stream,
     out |-> <<>>, err |-> None, pc |-> "run"]

\* A graph was built and run() was called with bindings; the caller has
\* the stream a and has not advanced it.
PairInit ==
    /\ join = Idle /\ reduce = Idle /\ map = Idle /\ graph = Idle /\ sort = Idle
    /\ \E made \in Makers, n \in 0..MaxStages :
       \E ss \in [1..n -> PairStages] :
          /\ Runnable(BuildGraph(Make(made), ss, 1))
          /\ \E kwargs \in Bindings(BuildGraph(Make(made), ss, 1)) :
                pair = [pc |-> "run", g |-> BuildGraph(Make(made), ss, 1),
                        a |-> NewRun(BuildGraph(Make(made), ss, 1), kwargs,
                                     InitStream(BuildGraph(Make(made), ss, 1))),
                        b |-> None]

\* run() is called again while the first stream is in use, with bindings
\* that give sources of their own with the same contents.
PairRunOther ==
    /\ UNCHANGED <<join, reduce, map, graph, sort>>
    /\ pair.b = None
    /\ pair.a.pc = "run"
    /\ pair' = [pair EXCEPT
                   !.b = Some(NewRun(pair.g, pair.a.bound,
                                     StreamBeside(pair.g, pair.a.stream)))]

\* The run after the caller's next advance of its stream
Advanced(g, run) ==
    LET r == Pull(g, run.kwargs, run.stream, Len(g.operations)) IN
    [run EXCEPT !.stream = r.st, !.kwargs = r.kwargs,
                !.out = IF r.row = None THEN @ ELSE Append(@, r.row[1]),
                !.err = r.err,
                !.pc = IF r.err # None THEN "error"
                       ELSE IF r.row = None THEN "done" ELSE "run"]

\* The caller advances the first stream.
PairAdvanceA ==
    /\ UNCHANGED <<join, reduce, map, graph, sort>>
    /\ pair.a.pc = "run"
    /\ pair' = [pair EXCEPT !.a = Advanced(pair.g, @)]

\* The caller advances the second stream.
PairAdvanceB ==
    /\ UNCHANGED <<join, reduce, map, graph, sort>>
    /\ pair.b # None
    /\ pair.b[1].pc = "run"
    /\ pair' = [pair EXCEPT !.b = Some(Advanced(pair.g, pair.b[1]))]

PairNext ==
    \/ PairRunOther
    \/ PairAdvanceA
    \/ PairAdvanceB

SpecPair == PairInit /\ [][PairNext]_vars

\* ------------------------------------------------- the runs of a stream

\* The indices at which a maximal run of rows with equal keys starts
RunStarts(rows, keys) ==
    {i \in 1..Len(rows) :
        i = 1 \/ sort_func(keys, rows[i]) # sort_func(keys, rows[i - 1])}

\* The start of the n-th run, and one past the last run for n beyond them
NthStart(rows, keys, n) ==
    IF n > Cardinality(RunStarts(rows, keys)) THEN Len(rows) + 1
    ELSE CHOOSE i \in RunStarts(rows, keys) :
             Cardinality({j \in RunStarts(rows, keys) : j < i}) = n - 1

\* The rows of the n-th run
NthRun(rows, keys, n) ==
    SubSeq(rows, NthStart(rows, keys, n), NthStart(rows, keys, n + 1) - 1)

RECURSIVE ConcatAll(_, _)
ConcatAll(ss, i) == IF i > Len(ss) THEN <<>> ELSE ss[i] \o ConcatAll(ss, i + 1)

\* The keys of a stream never decrease.
SortedBy(rows, keys) ==
    \A i \in 1..(Len(rows) - 1) :
        ~ListLess(sort_func(keys, rows[i + 1]), sort_func(keys, rows[i]))

\* C7: Reduce calls the reducer exactly once per maximal run of rows with
\* equal keys, in upstream order, with exactly the rows of that run, and
\* forwards what it yields in order; on a sorted upstream no key is handed
\* out twice, and an empty upstream gives no call and no output.
C7_ReduceGrouping ==
    reduce.pc = "done" =>
        /\ Len(reduce.calls) = Cardinality(RunStarts(reduce.rows, reduce.keys))
        /\ \A n \in 1..Len(reduce.calls) :
              /\ reduce.calls[n].group = NthRun(reduce.rows, reduce.keys, n)
              /\ reduce.calls[n].out
                    = CallReducer(reduce.reducer, reduce.keys,
                                  NthRun(reduce.rows, reduce.keys, n)).out
        /\ reduce.out = ConcatAll([n \in 1..Len(reduce.calls) |-> reduce.calls[n].out], 1)
        /\ SortedBy(reduce.rows, reduce.keys) =>
              \A m, n \in 1..Len(reduce.calls) :
                  m # n => sort_func(reduce.keys, reduce.calls[m].group[1])
                               # sort_func(reduce.keys, reduce.calls[n].group[1])
        /\ reduce.rows = <<>> => reduce.calls = <<>> /\ reduce.out = <<>>

\* A stream of several runs, one of them longer than one row, was reduced.
C7_Witness ==
    /\ reduce.pc = "done"
    /\ Len(reduce.calls) >= 2
    /\ \E n \in 1..Len(reduce.calls) : Len(reduce.calls[n].group) >= 2
    /\ reduce.out # <<>>

\* C8: when the reducer reads only a prefix of its group (FirstReducer reads
\* one row), the unread rows of the group are discarded and the next call
\* gets the whole next group from its first row on: no row of a later group
\* is lost and no leftover row of an earlier group reaches a later call.
C8_PrefixReducer ==
    (reduce.pc # "idle" /\ reduce.reducer = "FirstReducer") =>
        /\ \A n \in 1..Len(reduce.calls) :
              /\ reduce.calls[n].read = 1
              /\ reduce.calls[n].start = NthStart(reduce.rows, reduce.keys, n)
              /\ reduce.calls[n].group = NthRun(reduce.rows, reduce.keys, n)
        /\ reduce.out = [n \in 1..Len(reduce.calls) |->
                            reduce.rows[NthStart(reduce.rows, reduce.keys, n)]]
        /\ reduce.pc = "done" =>
              Len(reduce.calls) = Cardinality(RunStarts(reduce.rows, reduce.keys))

\* FirstReducer left rows of a group unread and a later group was reduced.
C8_Witness ==
    /\ reduce.pc = "done"
    /\ reduce.reducer = "FirstReducer"
    /\ \E n \in 1..(Len(reduce.calls) - 1) :
          Len(reduce.calls[n].group) > reduce.calls[n].read

\* How many rows the mapper yields for the first n upstream rows
RECURSIVE Emitted(_, _, _)
Emitted(m, rows, n) ==
    IF n = 0 THEN 0 ELSE Emitted(m, rows, n - 1) + Len(CallMapper(m, rows[n]))

\* C9: Map yields mapper(x1) ++ ... ++ mapper(xn) for the upstream rows
\* x1..xn: every row the mapper emits is forwarded, none is added and the
\* upstream order is kept; a mapper of one row per input gives an output as
\* long as the input, its image.
C9_MapConcat ==
    map.pc # "idle" =>
        /\ Len(map.out) = Emitted(map.mapper, map.rows, map.pos)
        /\ \A i \in 1..map.pos :
              LET res == CallMapper(map.mapper, map.rows[i]) IN
              \A x \in 1..Len(res) :
                  map.out[Emitted(map.mapper, map.rows, i - 1) + x] = res[x]
        /\ (map.pc = "done" /\ map.mapper = "DummyMapper") =>
              /\ Len(map.out) = Len(map.rows)
              /\ \A i \in 1..Len(map.rows) : map.out[i] = map.rows[i]
        /\ map.pc = "done" => map.pos = Len(map.rows)

\* Split was given several rows and yielded more rows than it was given.
C9_Witness ==
    /\ map.pc = "done"
    /\ map.mapper = "Split"
    /\ Len(map.rows) >= 2
    /\ Len(map.out) > Len(map.rows)

\* C10: a graph with no stages, run with a binding whose thunk returns the
\* rows xs, yields exactly xs: the same rows in the same order, nothing
\* added and nothing dropped.
C10_PassThrough ==
    (/\ graph.pc \in {"run", "done"}
     /\ graph.g = graph_from_iter("name")
     /\ "name" \in DOMAIN graph.kwargs) =>
        /\ Len(graph.out) <= Len(graph.kwargs["name"])
        /\ \A i \in 1..Len(graph.out) : graph.out[i] = graph.kwargs["name"][i]
        /\ graph.pc = "done" => graph.out = graph.kwargs["name"]

\* A graph with no stages was run to its end on several rows.
C10_Witness ==
    /\ graph.pc = "done"
    /\ graph.g = graph_from_iter("name")
    /\ Len(graph.kwargs["name"]) >= 2
    /\ Len(graph.out) >= 2

\* ------------------------------------------------ the reference join

\* The multiset of a sequence's elements
BagOf(s) ==
    [x \in {s[i] : i \in 1..Len(s)} |-> Cardinality({i \in 1..Len(s) : s[i] = x})]

\* The pairs (i, j) of a left and a right row with equal join keys
MatchedPairs(keys, L, R) ==
    {p \in (1..Len(L)) \X (1..Len(R)) :
        sort_func(keys, L[p[1]]) = sort_func(keys, R[p[2]])}

\* The rows of L whose key no row of R has
Unmatched(keys, L, R) ==
    {i \in 1..Len(L) :
        \A j \in 1..Len(R) : sort_func(keys, L[i]) # sort_func(keys, R[j])}

\* How often the mapping m is among the outputs a reference join demands:
\* one row per matched pair, and the one-sided rows the strategy keeps.
RefCount(keys, L, R, keepLeft, keepRight, m) ==
    Cardinality({p \in MatchedPairs(keys, L, R) :
                    RowMap(merge_pair(keys, L[p[1]], R[p[2]])) = m})
    + (IF keepLeft
       THEN Cardinality({i \in Unmatched(keys, L, R) : RowMap(L[i]) = m})
       ELSE 0)
    + (IF keepRight
       THEN Cardinality({j \in Unmatched(keys, R, L) : RowMap(R[j]) = m})
       ELSE 0)

RefRows(keys, L, R, keepLeft, keepRight) ==
    {RowMap(merge_pair(keys, L[p[1]], R[p[2]])) : p \in MatchedPairs(keys, L, R)}
    \cup (IF keepLeft THEN {RowMap(L[i]) : i \in Unmatched(keys, L, R)} ELSE {})
    \cup (IF keepRight THEN {RowMap(R[j]) : j \in Unmatched(keys, R, L)} ELSE {})

\* The multiset of rows of the reference join
RefJoin(keys, L, R, keepLeft, keepRight) ==
    [m \in RefRows(keys, L, R, keepLeft, keepRight) |->
        RefCount(keys, L, R, keepLeft, keepRight, m)]

JoinDone(j) == join.pc = "done" /\ join.joiner = j

JoinOutBag == BagOf(RowsMap(join.out))

\* C1: on inputs sorted by the keys, Join with InnerJoiner yields exactly the
\* reference inner join: one row per pair of a left and a right row with
\* equal keys, and nothing else.
C1_InnerIsReference ==
    JoinDone("InnerJoiner")
        => JoinOutBag = RefJoin(join.keys, join.rows, join.args0, FALSE, FALSE)

\* C2: on inputs sorted by the keys, Join with OuterJoiner yields the
\* cartesian product of every matched group and every row of a one-sided
\* group unchanged, so that every input row contributes to the output.
C2_OuterIsReference ==
    JoinDone("OuterJoiner")
        => JoinOutBag = RefJoin(join.keys, join.rows, join.args0, TRUE, TRUE)

\* C3: on inputs sorted by the keys, Join with LeftJoiner yields the
\* cartesian product of every matched group, every row of a left-only group
\* unchanged and nothing for a right-only group; RightJoiner is the mirror
\* image.
C3_LeftRightAreReference ==
    /\ JoinDone("LeftJoiner")
           => JoinOutBag = RefJoin(join.keys, join.rows, join.args0, TRUE, FALSE)
    /\ JoinDone("RightJoiner")
           => JoinOutBag = RefJoin(join.keys, join.rows, join.args0, FALSE, TRUE)

\* The calls of the joiner that got a non-empty group on both sides
MatchedCalls == {i \in 1..Len(join.calls) :
                    join.calls[i].rows_a # <<>> /\ join.calls[i].rows_b # <<>>}

\* The left and the right row the x-th output row of a matched call is built from
LeftOf(call, x) == call.rows_a[((x - 1) \div Len(call.rows_b)) + 1]

RightOf(call, x) == call.rows_b[((x - 1) % Len(call.rows_b)) + 1]

\* C4: every row y that Join with InnerJoiner emits is built from a left and
\* a right row with y[k] = left[k] = right[k] for every join key k.
C4_InnerKeyAlignment ==
    (join.pc # "idle" /\ join.joiner = "InnerJoiner") =>
        \A i \in 1..Len(join.calls) :
            LET call == join.calls[i] IN
            /\ call.out # <<>> => i \in MatchedCalls
            /\ \A x \in 1..Len(call.out) :
                  \A n \in 1..Len(join.keys) :
                      LET k == join.keys[n] IN
                      /\ Has(call.out[x], k)
                      /\ Get(call.out[x], k) = Get(LeftOf(call, x), k)
                      /\ Get(call.out[x], k) = Get(RightOf(call, x), k)

\* C5: in every row merged from a matched left and right row, every non-key
\* column c of both rows appears as c_1 with the left value and as c_2 with
\* the right value, and c itself does not appear.
C5_CollisionRule ==
    join.pc # "idle" =>
        \A i \in MatchedCalls :
            LET call == join.calls[i] IN
            \A x \in 1..Len(call.out) :
                LET l == LeftOf(call, x)
                    r == RightOf(call, x)
                    y == call.out[x]
                IN \A c \in (Columns(l) \cap Columns(r)) :
                       ~InSeq(c, join.keys) =>
                           /\ Has(y, c \o "_1") /\ Get(y, c \o "_1") = Get(l, c)
                           /\ Has(y, c \o "_2") /\ Get(y, c \o "_2") = Get(r, c)
                           /\ ~Has(y, c)

\* C6: for a matched group with left rows l1..lm and right rows r1..rn the
\* joiner emits exactly m*n rows, in the order (l1,r1), (l1,r2), ..., (lm,rn).
C6_ProductOrder ==
    join.pc # "idle" =>
        \A i \in MatchedCalls :
            LET call == join.calls[i]
                m == Len(call.rows_a)
                n == Len(call.rows_b)
            IN /\ Len(call.out) = m * n
               /\ \A a \in 1..m : \A b \in 1..n :
                     call.out[(a - 1) * n + b]
                         = merge_pair(join.keys, call.rows_a[a], call.rows_b[b])

\* A matched group with two rows on each side has been joined.
C6_Witness ==
    /\ join.pc = "done"
    /\ \E i \in MatchedCalls :
          /\ Len(join.calls[i].rows_a) >= 2
          /\ Len(join.calls[i].rows_b) >= 2
          /\ Len(join.calls[i].out) = 4

\* ------------------------------------------------- the built-in reducers

\* The calls of the reducer of class r made so far
CallsOf(r) == IF reduce.pc # "idle" /\ reduce.reducer = r
              THEN {reduce.calls[i] : i \in 1..Len(reduce.calls)} ELSE {}

\* C12: for any group, TopN(c, n) yields at most n rows, and the yielded
\* rows are in non-increasing order of their value in column c.
C12_TopNDescending ==
    \A call \in CallsOf("TopN") :
        /\ Len(call.out) <= reduce.args.n
        /\ \A x \in 1..(Len(call.out) - 1) :
              Get(call.out[x], reduce.args.column)
                  >= Get(call.out[x + 1], reduce.args.column)

\* The positions in the group of the rows a call of TopN yielded, in the
\* order it yielded them; the rows of a group are told apart by id
KeptAt(call) ==
    [x \in 1..Len(call.out) |->
        CHOOSE i \in 1..Len(call.group) :
            Get(call.group[i], "id") = Get(call.out[x], "id")]

\* C13: for a group of size s, TopN(col, n) yields exactly min(n, s) rows
\* whose col values are the min(n, s) largest of the group; among rows
\* with equal col the earlier row of the input is kept before the later
\* one at the cut-off and is yielded before it.
C13_TopNTies ==
    \A call \in CallsOf("TopN") :
        LET col == reduce.args.column
            s == Len(call.group)
            kept == KeptAt(call)
            K == {kept[x] : x \in 1..Len(kept)}
        IN /\ Len(call.out) = MinOf({reduce.args.n, s})
           /\ Cardinality(K) = Len(call.out)
           /\ \A i \in K, j \in (1..s) \ K :
                 Get(call.group[j], col) <= Get(call.group[i], col)
           /\ \A i, j \in 1..s :
                 (i < j /\ Get(call.group[i], col) = Get(call.group[j], col)) =>
                     /\ j \in K => i \in K
                     /\ \A x, y \in 1..Len(kept) :
                           (kept[x] = i /\ kept[y] = j) => x < y

\* C14 as claimed: for every non-empty group and every key tuple, Count(col)
\* yields exactly one row; it holds every group-key column with the
\* group's value for it, and col equal to the number of rows of the group.
C14_CountRow ==
    \A call \in CallsOf("Count") :
        /\ Len(call.out) = 1
        /\ \A i \in 1..Len(reduce.keys) :
              IF Has(call.out[1], reduce.keys[i])
              THEN Get(call.out[1], reduce.keys[i]) = Get(call.group[1], reduce.keys[i])
              ELSE FALSE
        /\ Get(call.out[1], reduce.args.column) = Len(call.group)

\* C14 as the code has it: Count(col) yields exactly one row per group and
\* its col is the number of rows of the group; when col is the first key
\* column the row holds col alone, otherwise it holds exactly the key
\* columns and col, every key column other than col with the group's value.
C14_CountRowAmended ==
    \A call \in CallsOf("Count") :
        LET col == reduce.args.column IN
        /\ Len(call.out) = 1
        /\ Get(call.out[1], col) = Len(call.group)
        /\ IF reduce.keys[1] = col
           THEN Columns(call.out[1]) = {col}
           ELSE /\ Columns(call.out[1])
                      = {reduce.keys[i] : i \in 1..Len(reduce.keys)} \cup {col}
                /\ \A i \in 1..Len(reduce.keys) :
                      reduce.keys[i] # col =>
                          Get(call.out[1], reduce.keys[i])
                              = Get(call.group[1], reduce.keys[i])

\* Count was called with col as the first key column on a group of
\* several rows, and with several key columns and a col of its own.
C14_Witness ==
    /\ reduce.pc = "done"
    /\ reduce.reducer = "Count"
    /\ \/ /\ reduce.keys[1] = reduce.args.column
          /\ \E i \in 1..Len(reduce.calls) : Len(reduce.calls[i].group) >= 2
       \/ /\ reduce.args.column = "count"
          /\ Len(reduce.keys) = 2
          /\ \E i \in 1..Len(reduce.calls) : Len(reduce.calls[i].group) >= 2

\* The sum of column over the rows of a group
RECURSIVE SumOf(_, _, _)
SumOf(rows, column, i) ==
    IF i > Len(rows) THEN 0 ELSE Get(rows[i], column) + SumOf(rows, column, i + 1)

\* C15: for every non-empty group and every key tuple of one or several
\* columns, Sum(col) yields exactly one row; it holds every group-key
\* column with the group's value for it, and col equal to the sum of col
\* over the rows of the group (col itself is not taken as a key column here).
C15_SumRow ==
    \A call \in CallsOf("Sum") :
        LET col == reduce.args.column IN
        (\A i \in 1..Len(reduce.keys) : reduce.keys[i] # col) =>
            /\ Len(call.out) = 1
            /\ \A i \in 1..Len(reduce.keys) :
                  IF Has(call.out[1], reduce.keys[i])
                  THEN Get(call.out[1], reduce.keys[i])
                           = Get(call.group[1], reduce.keys[i])
                  ELSE FALSE
            /\ Get(call.out[1], col) = SumOf(call.group, col, 1)

\* C16: for every group, TermFrequency(words_col, out) yields exactly one
\* row per distinct value w of words_col in the group, and that row's out
\* is (rows of the group whose words_col is w) / (rows of the group); the
\* numerators of the yielded rows add up to the size of the group.
C16_TermFrequencyRows ==
    \A call \in CallsOf("TermFrequency") :
        LET words == reduce.args.column
            W == {Get(call.group[i], words) : i \in 1..Len(call.group)}
            count(w) == Cardinality({i \in 1..Len(call.group) :
                                        Get(call.group[i], words) = w})
        IN /\ Len(call.out) = Cardinality(W)
           /\ \A w \in W : \E x \in 1..Len(call.out) : Get(call.out[x], words) = w
           /\ \A x \in 1..Len(call.out) :
                 IF Has(call.out[x], reduce.args.result)
                 THEN LET tf == Get(call.out[x], reduce.args.result) IN
                      tf[1] * Len(call.group)
                          = count(Get(call.out[x], words)) * tf[2]
                 ELSE FALSE

\* ------------------------------------------------------------------ Split

\* The rows Map has forwarded for its i-th upstream row
OutOf(i) ==
    SubSeq(map.out, Emitted(map.mapper, map.rows, i - 1) + 1,
           MinOf({Len(map.out), Emitted(map.mapper, map.rows, i)}))

\* The tokens in the split column of the rows forwarded for the i-th row
TokensOf(i) == [x \in 1..Len(OutOf(i)) |-> Get(OutOf(i)[x], "text")]

\* The upstream rows Split has been applied to
SplitDone == IF map.pc # "idle" /\ map.mapper = "Split" THEN 1..map.pos ELSE {}

\* The positions of the separator characters of a string, in order
SepAt(string) ==
    SelectSeq([i \in 1..Len(string) |-> i], LAMBDA i : string[i] \in separator)

\* The maximal runs of non-separator characters of a string, in order
RunsOf(string) ==
    LET first == SelectSeq([i \in 1..Len(string) |-> i],
                     LAMBDA i : /\ string[i] \notin separator
                                /\ (i = 1 \/ string[i - 1] \in separator))
        last(i) == MaxOf({j \in i..Len(string) :
                             \A x \in i..j : string[x] \notin separator})
    IN [r \in 1..Len(first) |-> SubSeq(string, first[r], last(first[r]))]

\* The fields of a string: what stands before its first separator, between
\* two consecutive separators and after its last separator, empty or not
FieldsOf(string) ==
    LET sep == SepAt(string)
        from(f) == IF f = 1 THEN 1 ELSE sep[f - 1] + 1
        to(f) == IF f = Len(sep) + 1 THEN Len(string) ELSE sep[f] - 1
    IN [f \in 1..(Len(sep) + 1) |-> SubSeq(string, from(f), to(f))]

\* Every column but the split column is copied into every forwarded row
OthersCopied(i) ==
    \A x \in 1..Len(OutOf(i)) :
        /\ Columns(OutOf(i)[x]) = Columns(map.rows[i])
        /\ \A c \in Columns(map.rows[i]) \ {"text"} :
              Get(OutOf(i)[x], c) = Get(map.rows[i], c)

\* C17 as claimed: Split emits one row per maximal run of non-separator
\* characters, in order, plus one trailing row with an empty token when the
\* string ends with a separator, and no other rows; every other column of
\* the input row is copied unchanged into each emitted row.
C17_SplitRuns ==
    \A i \in SplitDone :
        LET string == Get(map.rows[i], "text") IN
        /\ TokensOf(i) = RunsOf(string)
              \o (IF string # <<>> /\ string[Len(string)] \in separator
                  THEN <<<<>>>> ELSE <<>>)
        /\ OthersCopied(i)

\* C17 as the code has it: Split emits one row per field of the string, in
\* order, the empty fields included: before a leading separator, between
\* two adjacent separators, after a trailing separator, and the one field
\* of the empty string; every other column is copied unchanged.
C17_SplitFields ==
    \A i \in SplitDone :
        /\ TokensOf(i) = FieldsOf(Get(map.rows[i], "text"))
        /\ OthersCopied(i)

\* Split was applied to a string with a separator that no run precedes.
C17_Witness ==
    /\ map.pc = "done"
    /\ \E i \in SplitDone :
          LET string == Get(map.rows[i], "text") IN
          /\ Len(string) >= 2
          /\ string[1] \in separator
          /\ Len(OutOf(i)) > Len(RunsOf(string)) + 1

\* C18: Split of the empty string yields exactly one row, its token empty;
\* for any string the number of rows is one plus the number of separator
\* characters in it, and no token contains a separator character.
C18_SplitCount ==
    \A i \in SplitDone :
        LET string == Get(map.rows[i], "text") IN
        /\ string = <<>> => TokensOf(i) = <<<<>>>>
        /\ Len(OutOf(i))
              = 1 + Cardinality({p \in 1..Len(string) : string[p] \in separator})
        /\ \A x \in 1..Len(OutOf(i)) :
              \A p \in 1..Len(TokensOf(i)[x]) : TokensOf(i)[x][p] \notin separator

\* Split was applied to the empty string and to a string with separators.
C18_Witness ==
    /\ map.pc = "done"
    /\ \E i, j \in SplitDone :
          /\ Get(map.rows[i], "text") = <<>>
          /\ Len(OutOf(i)) = 1
          /\ Len(OutOf(j)) >= 3

\* ------------------------------------------------------- runs of a graph

\* A run of the graph is over: its stream ended or an advance raised
RunOver == graph.pc \in {"done", "error"}

\* C11: for a graph of the built-in stages and bindings whose thunks give a
\* fresh iterator over the same row collection at every call, two
\* successive complete runs yield equal row sequences, and neither run
\* fails if the other succeeds.
C11_RunTwice ==
    (/\ RunOver
     /\ graph.first # None
     /\ graph.g.reader.op = "ReadIterFactory") =>
        /\ graph.first[1].pc = graph.pc
        /\ graph.pc = "done" => graph.first[1].out = graph.out

\* The lines of a text: what stands up to and with each newline, and what
\* follows the last newline when that is not empty
LinesOf(text) ==
    LET nl == SelectSeq([i \in 1..Len(text) |-> i], LAMBDA i : text[i] = "\n")
        count == IF text # <<>> /\ text[Len(text)] # "\n" THEN Len(nl) + 1 ELSE Len(nl)
        from(f) == IF f = 1 THEN 1 ELSE nl[f - 1] + 1
        to(f) == IF f <= Len(nl) THEN nl[f] ELSE Len(text)
    IN [f \in 1..count |-> SubSeq(text, from(f), to(f))]

\* A line with nothing before its newline
Blank(line) == \A p \in 1..Len(line) : line[p] = "\n"

\* A graph of the file reader alone is run with a binding for its file
ReadRun ==
    /\ graph.pc \in {"run", "done", "error"}
    /\ graph.g = graph_from_file("name")
    /\ "name" \in DOMAIN graph.kwargs

\* C19 as claimed: Read yields parser(line) once for each non-empty line of
\* the file, in file order, and does not call the parser on empty lines; a
\* file with blank lines yields as many rows as it has non-empty lines.
C19_ReadNonEmpty ==
    ReadRun =>
        LET full == SelectSeq(LinesOf(graph.kwargs["name"]), LAMBDA l : ~Blank(l)) IN
        /\ \A x \in 1..Len(graph.stream.parsed) : ~Blank(graph.stream.parsed[x])
        /\ Len(graph.out) <= Len(full)
        /\ \A x \in 1..Len(graph.out) : parser(full[x]).row = Some(graph.out[x])
        /\ graph.pc = "done" => Len(graph.out) = Len(full)

\* C19 as the code has it: Read calls the parser once with every line of
\* the file, in file order, the blank lines too, and yields what it
\* returns; when the parser raises on a line, the run fails at that line.
C19_ReadEveryLine ==
    ReadRun =>
        LET lines == LinesOf(graph.kwargs["name"])
            parsed == graph.stream.parsed
        IN /\ Len(parsed) <= Len(lines)
           /\ \A x \in 1..Len(parsed) : parsed[x] = lines[x]
           /\ Len(graph.out) = IF graph.pc = "error" THEN Len(parsed) - 1 ELSE Len(parsed)
           /\ \A x \in 1..Len(graph.out) : parser(lines[x]).row = Some(graph.out[x])
           /\ graph.pc = "done" => Len(parsed) = Len(lines)
           /\ graph.pc = "error" =>
                 /\ parsed # <<>>
                 /\ graph.err = parser(parsed[Len(parsed)]).err
                 /\ graph.err # None

\* A file with a row and a blank line after it was read: the row was
\* yielded and the parser was called with the blank line.
C19_Witness ==
    /\ ReadRun
    /\ graph.pc = "error"
    /\ Len(graph.out) >= 1
    /\ Blank(graph.stream.parsed[Len(graph.stream.parsed)])

\* The source names of the graph that have no binding
Unbound == SourceNames(graph.g) \ DOMAIN graph.kwargs

\* C20: a run of a graph whose source name, or that of a graph it joins
\* with, has no binding fails with the missing-binding error (KeyError);
\* run() itself returns the stream without failing, the failure comes
\* with the first advance, and no row is yielded before it.
C20_MissingBinding ==
    (graph.pc \in {"run", "done", "error"} /\ Unbound # {}) =>
        /\ graph.pc # "done"
        /\ graph.out = <<>>
        /\ graph.pc = "run" => graph.err = None /\ Advance.err = Some("KeyError")
        /\ graph.pc = "error" => graph.err = Some("KeyError")

\* A graph with a join was run with rows for its own source and no binding
\* for the joined graph's source, and the first advance failed.
C20_Witness ==
    /\ graph.pc = "error"
    /\ graph.err = Some("KeyError")
    /\ HasStage(graph.g, "Join")
    /\ Unbound = {"other"}
    /\ graph.kwargs["name"] # <<>>

\* C21: once an advance of the stream of Graph.run has failed, every later
\* advance of that stream signals failure or the end of the stream: no row
\* is yielded after a failure.
C21_NoRowAfterFailure ==
    graph.pc = "error" =>
        \A x \in 1..Len(graph.late) : graph.late[x].row = None

\* A file whose first line fails to parse and that has lines after it was
\* read, and the stream was advanced twice after the failure.
C21_Witness ==
    /\ graph.pc = "error"
    /\ graph.g.reader.op = "Read"
    /\ graph.err = Some("SyntaxError")
    /\ graph.stream.pos < Len(LinesOf(graph.kwargs["name"]))
    /\ Len(graph.late) >= 2

\* ------------------------------------------------------------ the builder

\* The stage is of the kind the builder method makes and carries what the
\* call was given
StageFor(stage, call) ==
    /\ stage.args = call.args
    /\ CASE call.method = "map" ->
               stage.operation.op = "Map" /\ stage.operation.mapper = call.arg
         [] call.method = "reduce" ->
               stage.operation.op = "Reduce" /\ stage.operation.reducer = call.arg
         [] call.method = "sort" ->
               stage.operation.op = "ExternalSort" /\ stage.operation.keys = call.arg
         [] call.method = "join" ->
               stage.operation.op = "Join" /\ stage.operation.joiner = call.arg

C23_FromSource ==
    (graph.pc # "idle" /\ graph.made.by = "graph_from_") =>
        /\ graph.g.reader.name = "name"
        /\ graph.g.reader.op
              = (IF graph.made.parser = None THEN "ReadIterFactory" ELSE "Read")
        /\ graph.call = None => graph.g.operations = <<>>

\* A graph made by graph_from_ with a parser and no stage has read the
\* lines of a file.
C23_Witness ==
    /\ graph.made.by = "graph_from_"
    /\ graph.made.parser # None
    /\ graph.call = None
    /\ graph.pc = "done"
    /\ Len(graph.stream.parsed) >= 2

\* ------------------------------------------------ runs that go on together

\* The runs of the graph that were started
PairRuns ==
    IF pair.pc = "idle" THEN {}
    ELSE {pair.a} \cup (IF pair.b = None THEN {} ELSE {pair.b[1]})

\* What a run of the graph with the bindings kwargs gives when it is the
\* only one and is advanced to its end
Alone(g, kwargs) == Drain(g, kwargs, InitStream(g), Len(g.operations), <<>>)

\* The run has given the caller what the run alone gives, as far as it got
AsAlone(g, run) ==
    LET alone == Alone(g, run.bound) IN
    /\ Len(run.out) <= Len(alone.rows)
    /\ run.out = SubSeq(alone.rows, 1, Len(run.out))
    /\ run.pc = "done" => run.out = alone.rows /\ alone.err = None
    /\ run.pc = "error" => run.out = alone.rows /\ alone.err = run.err

C25_SortPermutation ==
    sort.pc = "done" =>
        /\ BagOf(sort.out) = BagOf(sort.rows)
        /\ Len(sort.out) = Len(sort.rows)
        /\ SortedBy(sort.out, sort.keys)

\* Rows that were not in order and did not fit into one run were sorted.
C25_Witness ==
    /\ sort.pc = "done"
    /\ Len(sort.runs) >= 2
    /\ ~SortedBy(sort.rows, sort.keys)
    /\ Len(sort.out) >= 3

\* ------------------------------------------------- the groups of a join

\* The keys of the rows of a stream
KeysOf(rows, keys) == {sort_func(keys, rows[i]) : i \in 1..Len(rows)}

\* The rows of a stream that have the key k, in their order
GroupOfKey(rows, keys, k) == SelectSeq(rows, LAMBDA row : sort_func(keys, row) = k)

\* The key of the groups a call of the joiner was given
CallKey(call) ==
    sort_func(join.keys, IF call.rows_a # <<>> THEN call.rows_a[1] ELSE call.rows_b[1])

\* C26: on two inputs sorted by the join keys, Join hands every left group
\* and every right group to the joiner exactly once and skips none: a
\* group whose key the other side lacks is passed with an empty other
\* side, groups with equal keys are passed together, and the calls of the
\* joiner come in non-decreasing order of the keys.
C26_JoinGroups ==
    join.pc = "done" =>
        LET all == KeysOf(join.rows, join.keys) \cup KeysOf(join.args0, join.keys) IN
        /\ Len(join.calls) = Cardinality(all)
        /\ \A k \in all :
              \E i \in 1..Len(join.calls) :
                  /\ join.calls[i].rows_a = GroupOfKey(join.rows, join.keys, k)
                  /\ join.calls[i].rows_b = GroupOfKey(join.args0, join.keys, k)
        /\ \A i \in 1..(Len(join.calls) - 1) :
              ~ListLess(CallKey(join.calls[i + 1]), CallKey(join.calls[i]))

\* C27: for any finite left and right inputs, sorted or not, and any of the
\* four joiners, the stream of Join reaches its end after finitely many
\* steps, and it ends only when both inputs are exhausted.
C27_JoinTerminates ==
    /\ <>(join.pc = "done")
    /\ [](join.pc = "done" =>
             /\ join.left_table.it = Len(join.rows)
             /\ join.right_table.it = Len(join.args0))

\* A join of two inputs that are not sorted has come to its end after
\* several calls of the joiner.
C27_Witness ==
    /\ join.pc = "done"
    /\ ~SortedBy(join.rows, join.keys)
    /\ ~SortedBy(join.args0, join.keys)
    /\ Len(join.calls) >= 3

\* ------------------------------------------------------------ pull-driven

\* The graph has Map stages only, and their mappers yield one row for
\* every row they are given
MapOnly(g) ==
    \A i \in 1..Len(g.operations) :
        /\ g.operations[i].operation.op = "Map"
        /\ g.operations[i].operation.mapper \in {"DummyMapper", "LogarithmOfRatioOfColumn"}

\* C28: in a graph made only of Map stages whose mappers yield one row
\* per input row, no binding thunk is called before the first advance, and
\* when the caller has received j rows exactly j rows have been pulled
\* from the source.
C28_NoReadAhead ==
    (graph.pc \in {"run", "done"} /\ MapOnly(graph.g)) =>
        /\ graph.stream.pos = Len(graph.out)
        /\ (graph.pc = "run" /\ graph.out = <<>>) => graph.stream.opened = {}
        /\ graph.out # <<>> => graph.stream.opened = {graph.g.reader.name}

\* A graph of two Map stages has yielded two rows of a source of three.
C28_Witness ==
    /\ graph.pc = "run"
    /\ MapOnly(graph.g)
    /\ Len(graph.g.operations) = 2
    /\ Len(graph.out) = 2
    /\ graph.stream.pos = 2
    /\ Len(graph.kwargs["name"]) = 3

\* C29: a run of the graph to its end leaves every row that the binding's
\* iterator handed out as it was, with the same columns and the same
\* values: the operators build new rows and never write into or delete
\* from a row they received.
C29_SourceRowsUnchanged ==
    (graph.pc = "done" /\ graph.first = None) => graph.kwargs = graph.bound

\* ------------------------------------------------------- the merged row

\* The row holds the value under the column
Holds(row, column, value) == IF Has(row, column) THEN Get(row, column) = value ELSE FALSE

\* C30: merging a matched left row and right row loses no value: the row
\* has as many columns as the two rows have together plus one for every
\* non-key column of both, and holds every left column and every right
\* non-key column under its own or its suffixed name, also when a row has a
\* column named like a shared column with a suffix (c beside c_1 or c_2).
C30_MergeKeepsValues ==
    join.pc # "idle" =>
        \A i \in MatchedCalls :
            LET call == join.calls[i] IN
            \A x \in 1..Len(call.out) :
                LET l == LeftOf(call, x)
                    r == RightOf(call, x)
                    y == call.out[x]
                    shared == {c \in Columns(l) \cap Columns(r) : ~InSeq(c, join.keys)}
                IN /\ Cardinality(Columns(y))
                         = Cardinality(Columns(l) \cup Columns(r)) + Cardinality(shared)
                   /\ \A c \in Columns(l) :
                         Holds(y, IF c \in shared THEN c \o a_suffix ELSE c, Get(l, c))
                   /\ \A c \in Columns(r) :
                         ~InSeq(c, join.keys) =>
                             Holds(y, IF c \in shared THEN c \o b_suffix ELSE c, Get(r, c))

====
